---------------------------- MODULE Spec2Model ----------------------------
(***************************************************************************)
(* Model of the reconciliation pipeline of the price tracker               *)
(* (server/app/services/data_processor.py, DataProcessor) over the         *)
(* relational tables Product / Price / PriceHistory / Store.               *)
(*                                                                         *)
(* Conventions                                                             *)
(*   - A product name is a short identifier; NameText gives its text as a  *)
(*     tuple of one-character strings, and the text is what the            *)
(*     normalisation and the similarity work on.                           *)
(*   - Prices are integers in thousandths of a currency unit (20.00 is     *)
(*     20000).  The price values used are exactly representable binary     *)
(*     floats, so the exact arithmetic below is the arithmetic of the code.*)
(*   - None / the empty string / 0.0 are the value Empty of a column: the  *)
(*     code only ever tests these columns for truthiness.                  *)
(*   - Time is an integer number of 12-hour units (Hours).                 *)
(***************************************************************************)
EXTENDS Integers, Sequences, FiniteSets, TLC

(***************************************************************************)
(* The product names of the model: identifier |-> text.  Two names are the *)
(* same string in the code exactly when they are the same identifier.      *)
(***************************************************************************)
NameText ==
  "" :> <<>> @@
  "Tomato 1kg" :> <<"T","o","m","a","t","o"," ","1","k","g">> @@
  "tomato 1kg" :> <<"t","o","m","a","t","o"," ","1","k","g">> @@
  "Tomato, 1 KG" :> <<"T","o","m","a","t","o",","," ","1"," ","K","G">> @@
  "Tomato 1kg pack" :> <<"T","o","m","a","t","o"," ","1","k","g"," ","p","a","c","k">> @@
  "cherry tomatoes 500g" :> <<"c","h","e","r","r","y"," ","t","o","m","a","t","o","e","s"," ","5","0","0","g">> @@
  "cherry tomato 500 g" :> <<"c","h","e","r","r","y"," ","t","o","m","a","t","o"," ","5","0","0"," ","g">> @@
  "cherry tomatoes" :> <<"c","h","e","r","r","y"," ","t","o","m","a","t","o","e","s">> @@
  "beef tomatoes" :> <<"b","e","e","f"," ","t","o","m","a","t","o","e","s">> @@
  "Tomato" :> <<"T","o","m","a","t","o">> @@
  "tomato" :> <<"t","o","m","a","t","o">> @@
  "Potato" :> <<"P","o","t","a","t","o">> @@
  "kg" :> <<"k","g">> @@
  "KG" :> <<"K","G">> @@
  "big red vine tomato" :> <<"b","i","g"," ","r","e","d"," ","v","i","n","e"," ","t","o","m","a","t","o">> @@
  "big red vine tomato box" :> <<"b","i","g"," ","r","e","d"," ","v","i","n","e"," ","t","o","m","a","t","o"," ","b","o","x">> @@
  "Big Red Vine Tomato Box" :> <<"B","i","g"," ","R","e","d"," ","V","i","n","e"," ","T","o","m","a","t","o"," ","B","o","x">> @@
  " " :> <<" ">>

(***************************************************************************)
(* Characters (Python str methods and the re classes \w and \s)            *)
(***************************************************************************)
UpperChars == <<"A","B","C","D","E","F","G","H","I","J","K","L","M",
                "N","O","P","Q","R","S","T","U","V","W","X","Y","Z">>

LowerChars == <<"a","b","c","d","e","f","g","h","i","j","k","l","m",
                "n","o","p","q","r","s","t","u","v","w","x","y","z">>

DigitChars == {"0","1","2","3","4","5","6","7","8","9"}

Range(s) == {s[i] : i \in DOMAIN s}

\* str.lower() on one character
lower(c) ==
  IF \E i \in DOMAIN UpperChars : UpperChars[i] = c
  THEN LowerChars[CHOOSE i \in DOMAIN UpperChars : UpperChars[i] = c]
  ELSE c

\* the class \s of re (and the separators of str.split / str.strip)
IsSpace(c) == c \in {" ", "\t", "\n"}

\* the class \w of re
IsWord(c) == c \in Range(UpperChars) \cup Range(LowerChars) \cup DigitChars \cup {"_"}

\* str.split(): the maximal runs of non-whitespace characters, in order
RECURSIVE SplitFrom(_, _, _)
SplitFrom(s, i, cur) ==
  IF i > Len(s)
  THEN IF cur = <<>> THEN <<>> ELSE <<cur>>
  ELSE IF IsSpace(s[i])
       THEN (IF cur = <<>> THEN <<>> ELSE <<cur>>) \o SplitFrom(s, i + 1, <<>>)
       ELSE SplitFrom(s, i + 1, Append(cur, s[i]))

split(s) == SplitFrom(s, 1, <<>>)

\* not name or len(name.strip()) == 0
is_blank(s) == \A i \in DOMAIN s : IsSpace(s[i])

\* ' '.join(words)
RECURSIVE join(_)
join(ws) ==
  IF ws = <<>> THEN <<>>
  ELSE IF Len(ws) = 1 THEN ws[1]
  ELSE ws[1] \o <<" ">> \o join(Tail(ws))

\* the alternation of the unit pattern \b(pack|pcs|pieces|kg|g|ml|l)\b
UnitWords ==
  { <<"p","a","c","k">>, <<"p","c","s">>, <<"p","i","e","c","e","s">>,
    <<"k","g">>, <<"g">>, <<"m","l">>, <<"l">> }

\* re.sub(r'\b(pack|pcs|pieces|kg|g|ml|l)\b', '', s): both ends of a match
\* are word boundaries and the alternatives hold only \w characters, so a
\* match is exactly a maximal run of \w characters that is a unit word.
RECURSIVE SubUnitsFrom(_, _, _)
SubUnitsFrom(s, i, run) ==
  LET keep == IF run \in UnitWords THEN <<>> ELSE run
  IN IF i > Len(s) THEN keep
     ELSE IF IsWord(s[i])
          THEN SubUnitsFrom(s, i + 1, Append(run, s[i]))
          ELSE keep \o <<s[i]>> \o SubUnitsFrom(s, i + 1, <<>>)

sub_units(s) == SubUnitsFrom(s, 1, <<>>)

\* re.sub(r'[^\w\s]', '', s)
sub_special(s) == SelectSeq(s, LAMBDA c : IsWord(c) \/ IsSpace(c))

\* a plausible slip: the unit words are left in the name
normalize_no_units(name) ==
  IF name = <<>> THEN <<>>
  ELSE join(split(sub_special(
         join(split([i \in DOMAIN name |-> lower(name[i])])))))

\* DataProcessor._normalize_product_name
normalize_product_name(name) ==
  IF name = <<>> THEN <<>>
  ELSE LET normalized == join(split([i \in DOMAIN name |-> lower(name[i])]))
       IN join(split(sub_special(sub_units(normalized))))

\* DataProcessor._calculate_similarity: the Jaccard index of the two word
\* sets as the fraction <<numerator, denominator>>
calculate_similarity(name1, name2) ==
  IF name1 = <<>> \/ name2 = <<>> THEN <<0, 1>>
  ELSE LET words1 == Range(split(name1))
           words2 == Range(split(name2))
       IN IF words1 = {} /\ words2 = {} THEN <<1, 1>>
          ELSE <<Cardinality(words1 \cap words2), Cardinality(words1 \cup words2)>>

\* DataProcessor.similarity_threshold = 0.8 as the fraction 4 / 5
similarity_threshold == <<4, 5>>

\* fraction a >= fraction b, denominators positive
FracGeq(a, b) == a[1] * b[2] >= b[1] * a[2]

\* the test "similarity >= self.similarity_threshold" of the fuzzy loop
is_similar(similarity) == FracGeq(similarity, similarity_threshold)


(***************************************************************************)
(* Scraped records                                                         *)
(***************************************************************************)
Empty == ""

\* ScrapedProduct with __post_init__ applied: when original_price and price
\* are set (and no discount_percentage was passed) discount_percentage is
\* (original_price - price) / original_price * 100 and is_discounted is
\* discount_percentage > 0, whatever flag the scraper passed.
ScrapedProduct(name, price, original_price, external_id, is_available, is_discounted, fields) ==
  [ name           |-> name,
    price          |-> price,
    original_price |-> original_price,
    external_id    |-> external_id,
    is_available   |-> is_available,
    is_discounted  |-> IF original_price # 0 /\ price # 0
                       THEN original_price - price > 0
                       ELSE is_discounted,
    category       |-> fields.category,
    description    |-> fields.description,
    image_url      |-> fields.image_url,
    brand          |-> fields.brand,
    weight_value   |-> fields.weight_value,
    pack_unit      |-> fields.pack_unit ]

NoFields ==
  [ category |-> Empty, description |-> Empty, image_url |-> Empty,
    brand |-> Empty, weight_value |-> 0, pack_unit |-> Empty ]

FieldsA ==
  [ category |-> "vegetables", description |-> "desc A", image_url |-> "a.png",
    brand |-> "brand A", weight_value |-> 1000, pack_unit |-> "kg" ]

FieldsB ==
  [ category |-> "fruits", description |-> "desc B", image_url |-> "b.png",
    brand |-> "brand B", weight_value |-> 500, pack_unit |-> "g" ]

(***************************************************************************)
(* Arithmetic                                                              *)
(***************************************************************************)
Abs(x) == IF x < 0 THEN -x ELSE x

Min(S) == CHOOSE x \in S : \A y \in S : x <= y

Max(S) == CHOOSE x \in S : \A y \in S : x >= y

\* round(price, 2) on a price in thousandths: the nearest hundredth, a tie
\* (only an exactly representable one reaches round as a tie) to the even one
round2(p) ==
  LET q == p \div 10
      m == p % 10
  IN IF m < 5 THEN 10 * q
     ELSE IF m > 5 THEN 10 * (q + 1)
     ELSE IF q % 2 = 0 THEN 10 * q ELSE 10 * (q + 1)

(***************************************************************************)
(* State                                                                   *)
(***************************************************************************)
VARIABLES
  db,        \* the tables as the sessions see them: products, prices,
             \* history (sequences of rows) and stores (id |-> counters)
  run,       \* run id |-> the state of that call of process_scraped_products
  result,    \* what the last call of _process_single_product did
  now,       \* the wall clock, in units of 12 hours
  row_order, \* the order in which the database returns rows when the query
             \* leaves it open: by ascending or by descending primary key
  listings,  \* the records the store sites list, from which a run's input is drawn
  text,      \* the texts the pipeline derives from the listed names: for each
             \* name whether it is blank and its normalised form, for each
             \* pair of names the similarity of the normalised forms
  call,      \* the last direct call of a pure helper: arguments and result
  budget,    \* records handed to runs so far, and failures injected so far
  scraper,   \* a BaseScraper instance: its browser resources, its position in
             \* run_scraping, the errors and records it has collected
  tasks      \* the Celery tasks of the backend: the Store rows they update,
             \* the messages queued and the task running for each store

vars == <<db, run, result, now, row_order, listings, text, call, budget, scraper, tasks>>

(***************************************************************************)
(* Deduplication                                                           *)
(***************************************************************************)
\* the product_key f"{normalized_name}_{price_key}": the price text holds no
\* underscore, so the string is one-to-one with the pair
product_key(product) == <<text.normalized[product.name], round2(product.price)>>

RECURSIVE RemoveDuplicatesFrom(_, _, _)
RemoveDuplicatesFrom(products, i, seen_products) ==
  IF i > Len(products) THEN <<>>
  ELSE LET key == product_key(products[i])
       IN IF key \notin seen_products
          THEN <<products[i]>> \o
               RemoveDuplicatesFrom(products, i + 1, seen_products \cup {key})
          ELSE RemoveDuplicatesFrom(products, i + 1, seen_products)

\* a plausible slip: a later record of a key replaces the earlier one
RECURSIVE remove_duplicates_keep_last(_)
remove_duplicates_keep_last(products) ==
  IF products = <<>> THEN <<>>
  ELSE LET rest == Tail(products)
       IN IF \E j \in DOMAIN rest : product_key(rest[j]) = product_key(products[1])
          THEN remove_duplicates_keep_last(rest)
          ELSE <<products[1]>> \o remove_duplicates_keep_last(rest)

\* DataProcessor._remove_duplicates
remove_duplicates(products) == RemoveDuplicatesFrom(products, 1, {})

\* stats['duplicates_removed'] of process_scraped_products
duplicates_removed(scraped_products, unique_products) ==
  Len(scraped_products) - Len(unique_products)


StoreIds == {1, 2}

\* the calls of process_scraped_products that may be in progress at once,
\* each with a session of its own
Runs == {1, 2}

\* bounds of the model
MaxRecords == 3

MaxInput == 2

MaxTime == 4

MaxFaults == 1

\* a span of clock units in hours: one unit of the clock is 12 hours
Hours(units) == 12 * units

\* DataProcessor.price_change_threshold = 0.05 as the fraction 5 / 100
price_change_threshold == <<5, 100>>

\* timedelta(hours=24) of _should_update_price
MaxAgeHours == 24

\* the 1% threshold of _create_price_history_entry
change_type_threshold == 1

NoRow == 0

(***************************************************************************)
(* The session: visibility, ordering, flush                                *)
(*   txn  = 0      the row is committed                                    *)
(*   txn  = r      the row was added by run r and is not committed         *)
(*   flushed       the INSERT of the row has been emitted; a query of the  *)
(*                 session (autoflush=False) sees flushed rows only        *)
(***************************************************************************)
\* Query.first() of a query whose ORDER BY leaves the order among S open
First(S, order) == IF S = {} THEN NoRow ELSE IF order = "asc" THEN Min(S) ELSE Max(S)

\* a plausible slip: the queries of the matching leave out the store filter
visible_products_any_store(d, r, store_id) ==
  {i \in DOMAIN d.products : d.products[i].txn \in {0, r}}

\* a SELECT of run r on products sees committed rows and the rows the run
\* has flushed (a new product is flushed as soon as it is added)
VisibleProducts(d, r, store_id) ==
  {i \in DOMAIN d.products :
     d.products[i].txn \in {0, r} /\ d.products[i].store_id = store_id}

VisiblePrices(d, r, product_id, store_id) ==
  {i \in DOMAIN d.prices : /\ d.prices[i].txn \in {0, r}
                            /\ d.prices[i].flushed
                            /\ d.prices[i].product_id = product_id
                            /\ d.prices[i].store_id = store_id}

\* Session.flush(): the pending INSERTs and UPDATEs of run r reach the
\* database (inside the transaction): the rows the run has added and the
\* committed rows it has changed
flush(d, r) ==
  [d EXCEPT
     !.products = [i \in DOMAIN d.products |->
                     IF d.products[i].txn = r \/ \E u \in run[r].undo : u[1] = i
                     THEN [d.products[i] EXCEPT !.db_external_id = d.products[i].external_id]
                     ELSE d.products[i]],
     !.prices = [i \in DOMAIN d.prices |->
                   IF d.prices[i].txn = r
                   THEN [d.prices[i] EXCEPT !.flushed = TRUE]
                   ELSE d.prices[i]]]

(***************************************************************************)
(* Matching                                                                *)
(***************************************************************************)
\* the test of _find_matching_product's loop on two names:
\* _calculate_similarity of the two normalised names
name_similarity(name1, name2) ==
  calculate_similarity(normalize_product_name(name1), normalize_product_name(name2))

\* what the pipeline derives from the names: worked out once per name and
\* per pair of names, and looked up from then on
TextOf(names) ==
  [ blank      |-> [n \in names |-> is_blank(NameText[n])],
    normalized |-> [n \in names |-> normalize_product_name(NameText[n])],
    similarity |-> [a \in names, b \in names |->
                      name_similarity(NameText[a], NameText[b])] ]

\* the three queries of _find_matching_product, each the set of row ids the
\* SELECT returns; the external-id filter runs in the database and so reads
\* the flushed column value
ExternalIdMatches(d, r, store_id, scraped_product) ==
  IF scraped_product.external_id = Empty THEN {}
  ELSE {i \in VisibleProducts(d, r, store_id) :
          d.products[i].db_external_id = scraped_product.external_id}

NameMatches(d, r, store_id, scraped_product) ==
  {i \in VisibleProducts(d, r, store_id) :
     d.products[i].name = scraped_product.name}

SimilarProducts(d, r, store_id, scraped_product) ==
  {i \in VisibleProducts(d, r, store_id) :
     is_similar(text.similarity[scraped_product.name, d.products[i].name])}

\* DataProcessor._find_matching_product: the matched row id, or NoRow
find_matching_product(d, r, store_id, scraped_product, order) ==
  LET by_ext  == ExternalIdMatches(d, r, store_id, scraped_product)
      by_name == NameMatches(d, r, store_id, scraped_product)
      similar == SimilarProducts(d, r, store_id, scraped_product)
  IN IF by_ext # {} THEN First(by_ext, order)
     ELSE IF by_name # {} THEN First(by_name, order)
     ELSE First(similar, order)

\* which of the three strategies found the row
MatchedVia(d, r, store_id, scraped_product) ==
  IF ExternalIdMatches(d, r, store_id, scraped_product) # {} THEN "external_id"
  ELSE IF NameMatches(d, r, store_id, scraped_product) # {} THEN "name"
  ELSE IF SimilarProducts(d, r, store_id, scraped_product) # {} THEN "fuzzy"
  ELSE "none"

(***************************************************************************)
(* Prices                                                                  *)
(***************************************************************************)
\* .order_by(Price.scraped_at.desc()).first() of _update_existing_product:
\* the visible row of the pair with the greatest scraped_at; among equal
\* timestamps the database's row order decides
current_price(d, r, product_id, store_id, order) ==
  LET rows   == VisiblePrices(d, r, product_id, store_id)
      latest == {i \in rows : \A j \in rows : d.prices[i].scraped_at >= d.prices[j].scraped_at}
  IN First(latest, order)

\* DataProcessor._should_update_price
should_update_price(current, scraped_product, t) ==
  \/ Hours(t - current.scraped_at) > MaxAgeHours
  \/ FracGeq(<<Abs(current.price - scraped_product.price), current.price>>,
             price_change_threshold)
  \/ current.is_available # scraped_product.is_available
  \/ current.is_discounted # scraped_product.is_discounted

\* DataProcessor._create_price_entry: db.add(price), not flushed; scraped_at
\* is the server default now(), the timestamp of the run's transaction
create_price_entry(d, r, product_id, store_id, scraped_product, txn_time) ==
  [d EXCEPT !.prices = Append(@,
     [ product_id     |-> product_id,
       store_id       |-> store_id,
       price          |-> scraped_product.price,
       original_price |-> scraped_product.original_price,
       is_available   |-> scraped_product.is_available,
       is_discounted  |-> scraped_product.is_discounted,
       scraped_at     |-> txn_time,
       txn            |-> r,
       flushed        |-> FALSE ])]

\* a plausible slip: a price move of 1% or more decides before availability
change_type_amount_first(old_price, scraped_product) ==
  LET price_change == scraped_product.price - old_price.price
  IN IF old_price.price > 0
        /\ Abs(price_change) * 100 >= change_type_threshold * old_price.price
     THEN IF price_change > 0 THEN "increase" ELSE "decrease"
     ELSE IF ~scraped_product.is_available THEN "unavailable"
     ELSE IF ~old_price.is_available /\ scraped_product.is_available THEN "new"
     ELSE "stable"

\* the change type of _create_price_history_entry
change_type(old_price, scraped_product) ==
  LET price_change == scraped_product.price - old_price.price
      by_amount ==
        IF old_price.price > 0
           /\ Abs(price_change) * 100 >= change_type_threshold * old_price.price
        THEN IF price_change > 0 THEN "increase" ELSE "decrease"
        ELSE "stable"
  IN IF ~scraped_product.is_available THEN "unavailable"
     ELSE IF ~old_price.is_available /\ scraped_product.is_available THEN "new"
     ELSE by_amount

\* DataProcessor._create_price_history_entry; change_percentage is the
\* fraction <<price_change * 100, old price>>
create_price_history_entry(d, r, old_price, scraped_product) ==
  LET price_change == scraped_product.price - old_price.price
  IN [d EXCEPT !.history = Append(@,
       [ product_id        |-> old_price.product_id,
         store_id          |-> old_price.store_id,
         price             |-> old_price.price,
         original_price    |-> old_price.original_price,
         is_available      |-> old_price.is_available,
         is_discounted     |-> old_price.is_discounted,
         change_type       |-> change_type(old_price, scraped_product),
         change_amount     |-> price_change,
         change_percentage |-> IF old_price.price > 0
                               THEN <<price_change * 100, old_price.price>>
                               ELSE <<0, 1>>,
         recorded_at       |-> old_price.scraped_at,
         txn               |-> r ])]

(***************************************************************************)
(* Products                                                                *)
(***************************************************************************)
\* a plausible slip: a value of the record replaces the Product's
merge_fields_overwrite(product, scraped_product) ==
  [product EXCEPT
     !.description = IF scraped_product.description # Empty
                     THEN scraped_product.description ELSE @,
     !.image_url   = IF scraped_product.image_url # Empty
                     THEN scraped_product.image_url ELSE @,
     !.brand       = IF scraped_product.brand # Empty
                     THEN scraped_product.brand ELSE @,
     !.weight      = IF scraped_product.weight_value # 0
                     THEN scraped_product.weight_value ELSE @,
     !.unit        = IF scraped_product.pack_unit # Empty
                     THEN scraped_product.pack_unit ELSE @,
     !.external_id = IF scraped_product.external_id # Empty
                     THEN scraped_product.external_id ELSE @]

\* the field-by-field enrichment of _update_existing_product
merge_fields(product, scraped_product) ==
  [product EXCEPT
     !.description = IF scraped_product.description # Empty /\ @ = Empty
                     THEN scraped_product.description ELSE @,
     !.image_url   = IF scraped_product.image_url # Empty /\ @ = Empty
                     THEN scraped_product.image_url ELSE @,
     !.brand       = IF scraped_product.brand # Empty /\ @ = Empty
                     THEN scraped_product.brand ELSE @,
     !.weight      = IF scraped_product.weight_value # 0 /\ @ = 0
                     THEN scraped_product.weight_value ELSE @,
     !.unit        = IF scraped_product.pack_unit # Empty /\ @ = Empty
                     THEN scraped_product.pack_unit ELSE @,
     !.external_id = IF scraped_product.external_id # Empty /\ @ = Empty
                     THEN scraped_product.external_id ELSE @]

\* DataProcessor._update_existing_product: the new tables and the flag
\* price_updated it returns
update_existing_product(d, r, product_id, scraped_product, t, txn_time, order) ==
  LET product == d.products[product_id]
      merged  == [merge_fields(product, scraped_product) EXCEPT !.updated_at = t]
      d1      == [d EXCEPT !.products[product_id] = merged]
      cur     == current_price(d, r, product_id, product.store_id, order)
      write   == cur = NoRow \/ should_update_price(d.prices[cur], scraped_product, t)
      d2      == IF write
                 THEN create_price_entry(d1, r, product_id, product.store_id,
                                         scraped_product, txn_time)
                 ELSE d1
      d3      == IF write /\ cur # NoRow
                 THEN create_price_history_entry(d2, r, d.prices[cur], scraped_product)
                 ELSE d2
  IN [db |-> d3, price_updated |-> write]

\* DataProcessor._create_new_product: db.add(product), db.flush(), then the
\* initial price (added, not flushed)
create_new_product(d, r, store_id, scraped_product, txn_time) ==
  LET product ==
        [ store_id       |-> store_id,
          name           |-> scraped_product.name,
          category       |-> IF scraped_product.category # Empty
                             THEN scraped_product.category ELSE "pantry",
          description    |-> scraped_product.description,
          image_url      |-> scraped_product.image_url,
          unit           |-> scraped_product.pack_unit,
          weight         |-> scraped_product.weight_value,
          brand          |-> scraped_product.brand,
          external_id    |-> scraped_product.external_id,
          db_external_id |-> scraped_product.external_id,
          is_active      |-> TRUE,
          updated_at     |-> 0,
          txn            |-> r ]
      d1 == flush([d EXCEPT !.products = Append(@, product)], r)
  IN create_price_entry(d1, r, Len(d1.products), store_id, scraped_product, txn_time)

\* DataProcessor._validate_scraped_product
validate_scraped_product(product) ==
  /\ ~text.blank[product.name]
  /\ product.price > 0
  /\ ~(product.original_price # 0 /\ product.original_price < product.price)

(***************************************************************************)
(* One record                                                              *)
(***************************************************************************)
\* DataProcessor._process_single_product: the new tables and the result
\* dictionary {action, product_id, price_updated}
process_single_product(d, r, store_id, scraped_product, t, txn_time, order) ==
  IF ~validate_scraped_product(scraped_product)
  THEN [db |-> d, action |-> "invalid", product_id |-> NoRow, price_updated |-> FALSE]
  ELSE LET existing_product ==
             find_matching_product(d, r, store_id, scraped_product, order)
       IN IF existing_product # NoRow
          THEN LET u == update_existing_product(d, r, existing_product,
                                                scraped_product, t, txn_time, order)
               IN [db |-> u.db, action |-> "updated",
                   product_id |-> existing_product, price_updated |-> u.price_updated]
          ELSE LET d1 == create_new_product(d, r, store_id, scraped_product, txn_time)
               IN [db |-> d1, action |-> "created",
                   product_id |-> Len(d1.products), price_updated |-> FALSE]

\* a plausible slip: the branch of the invalid records is missing
count_result_valid_only(stats, res) ==
  IF res.action = "created"
  THEN [stats EXCEPT !.products_created = @ + 1, !.prices_added = @ + 1]
  ELSE IF res.action = "updated"
  THEN IF res.price_updated
       THEN [stats EXCEPT !.products_updated = @ + 1, !.prices_updated = @ + 1]
       ELSE [stats EXCEPT !.products_updated = @ + 1, !.prices_added = @ + 1]
  ELSE stats

\* the counters of process_scraped_products after one result
count_result(stats, res) ==
  IF res.action = "created"
  THEN [stats EXCEPT !.products_created = @ + 1, !.prices_added = @ + 1]
  ELSE IF res.action = "updated"
  THEN IF res.price_updated
       THEN [stats EXCEPT !.products_updated = @ + 1, !.prices_updated = @ + 1]
       ELSE [stats EXCEPT !.products_updated = @ + 1, !.prices_added = @ + 1]
  ELSE IF res.action = "invalid"
  THEN [stats EXCEPT !.invalid_products = @ + 1]
  ELSE stats

\* the except branch of the loop: the message is kept, the record counted invalid
count_error(stats) ==
  [stats EXCEPT !.errors = Append(@, "record"), !.invalid_products = @ + 1]

(***************************************************************************)
(* The transaction                                                         *)
(***************************************************************************)
\* the rows of the committed database: what any other session reads.  undo
\* holds, for each committed product row a run has changed in memory, the
\* row as committed.
Undone(d, undo, i) ==
  IF \E u \in undo : u[1] = i
  THEN (CHOOSE u \in undo : u[1] = i)[2]
  ELSE d.products[i]

Committed(d, undo) ==
  [ products |-> {<<i, Undone(d, undo, i)>> :
                    i \in {j \in DOMAIN d.products : d.products[j].txn = 0}},
    prices   |-> SelectSeq(d.prices, LAMBDA p : p.txn = 0),
    history  |-> SelectSeq(d.history, LAMBDA h : h.txn = 0),
    stores   |-> d.stores ]

\* Session.commit(): flush, then every row of the run is committed
commit(d, r) ==
  LET f == flush(d, r)
  IN [f EXCEPT
        !.products = [i \in DOMAIN f.products |->
                        IF f.products[i].txn = r
                        THEN [f.products[i] EXCEPT !.txn = 0] ELSE f.products[i]],
        !.prices   = [i \in DOMAIN f.prices |->
                        IF f.prices[i].txn = r
                        THEN [f.prices[i] EXCEPT !.txn = 0] ELSE f.prices[i]],
        !.history  = [i \in DOMAIN f.history |->
                        IF f.history[i].txn = r
                        THEN [f.history[i] EXCEPT !.txn = 0] ELSE f.history[i]]]

\* a plausible slip: the handler keeps what the run got done
rollback_commits(d, r, undo) == commit(d, r)

\* Session.rollback(): the rows the run added are gone (a product id stays
\* used), the rows it changed are as committed
rollback(d, r, undo) ==
  [d EXCEPT
     !.products = [i \in DOMAIN d.products |->
                     IF d.products[i].txn = r
                     THEN [d.products[i] EXCEPT !.txn = -1]
                     ELSE Undone(d, undo, i)],
     !.prices   = SelectSeq(d.prices, LAMBDA p : p.txn # r),
     !.history  = SelectSeq(d.history, LAMBDA h : h.txn # r)]

\* a plausible slip: a run counts as failed only when no record got through
update_store_stats_lenient(d, store_id, stats, t) ==
  IF store_id \notin DOMAIN d.stores THEN d
  ELSE [d EXCEPT
          !.stores[store_id].last_scraped   = t,
          !.stores[store_id].total_scrapes  = @ + 1,
          !.stores[store_id].failed_scrapes =
             IF stats.errors # <<>> /\ stats.products_created + stats.products_updated = 0
             THEN @ + 1 ELSE @]

\* DataProcessor._update_store_stats (success_rate is a function of the two
\* counters and is left out)
update_store_stats(d, store_id, stats, t) ==
  IF store_id \notin DOMAIN d.stores THEN d
  ELSE [d EXCEPT
          !.stores[store_id].last_scraped   = t,
          !.stores[store_id].total_scrapes  = @ + 1,
          !.stores[store_id].failed_scrapes = IF stats.errors # <<>> THEN @ + 1 ELSE @]

(***************************************************************************)
(* The records of the model                                                *)
(***************************************************************************)
Tomato2000 == ScrapedProduct("Tomato", 20000, 0, Empty, TRUE, FALSE, NoFields)

Tomato2050 == ScrapedProduct("Tomato", 20500, 0, Empty, TRUE, FALSE, NoFields)

Tomato2100 == ScrapedProduct("Tomato", 21000, 0, Empty, TRUE, FALSE, NoFields)

Tomato2150 == ScrapedProduct("Tomato", 21500, 0, Empty, TRUE, FALSE, NoFields)

TomatoGone == ScrapedProduct("Tomato", 20000, 0, Empty, FALSE, FALSE, NoFields)

Tomato2500 == ScrapedProduct("Tomato", 25000, 0, Empty, TRUE, FALSE, NoFields)

\* on sale at 1% above 25.00, and at 0.5% above it
TomatoSale == ScrapedProduct("Tomato", 25250, 30000, Empty, TRUE, FALSE, NoFields)

TomatoSale2 == ScrapedProduct("Tomato", 25125, 30000, Empty, TRUE, FALSE, NoFields)

TomatoX1 == ScrapedProduct("Tomato", 20000, 0, "X1", TRUE, FALSE, FieldsA)

PotatoX1 == ScrapedProduct("Potato", 20000, 0, "X1", TRUE, FALSE, FieldsB)

LowerTomato == ScrapedProduct("tomato", 20000, 0, Empty, TRUE, FALSE, FieldsB)

Vine4 == ScrapedProduct("big red vine tomato", 30000, 0, Empty, TRUE, FALSE, NoFields)

Vine5 == ScrapedProduct("big red vine tomato box", 30000, 0, Empty, TRUE, FALSE, FieldsA)

Vine5Upper == ScrapedProduct("Big Red Vine Tomato Box", 30000, 0, Empty, TRUE, FALSE, NoFields)

UnitOnly == ScrapedProduct("kg", 5000, 0, Empty, TRUE, FALSE, NoFields)

UnitOnlyUpper == ScrapedProduct("KG", 5000, 0, Empty, TRUE, FALSE, NoFields)

Nameless == ScrapedProduct(" ", 5000, 0, Empty, TRUE, FALSE, NoFields)

Overpriced == ScrapedProduct("Potato", 30000, 25000, Empty, TRUE, FALSE, NoFields)

\* what the sites may list: one scenario is the stores each run may be
\* started for, whether a run may be started again when it is done, and
\* the records the sites show; a run draws its input from them
\* one run at a time, for one of the given stores
OneRun(stores) == [r \in Runs |-> IF r = 1 THEN stores ELSE {}]

PriceListings ==
  { [assign |-> OneRun({1}), repeat |-> TRUE, records |-> {Tomato2000, Tomato2050, Tomato2150}],
    [assign |-> OneRun({1}), repeat |-> TRUE, records |-> {Tomato2000, Tomato2100, TomatoGone}],
    [assign |-> OneRun({1}), repeat |-> TRUE, records |-> {Tomato2500, TomatoSale, TomatoSale2}] }

MatchListings ==
  { [assign |-> OneRun({1, 2}), repeat |-> TRUE, records |-> {Tomato2000, TomatoX1, PotatoX1}],
    [assign |-> OneRun({1}), repeat |-> TRUE, records |-> {Tomato2000, LowerTomato, Overpriced}],
    [assign |-> OneRun({1}), repeat |-> TRUE, records |-> {Vine4, Vine5, Vine5Upper}],
    [assign |-> OneRun({1}), repeat |-> TRUE, records |-> {UnitOnly, UnitOnlyUpper, Nameless}] }

\* two runs that may be in progress at once, each started once: one for
\* each store, or both for the same store
ConcurrentListings ==
  { [assign |-> [r \in Runs |-> {r}], repeat |-> FALSE, records |-> {Tomato2000, TomatoX1}],
    [assign |-> [r \in Runs |-> {1}], repeat |-> FALSE, records |-> {TomatoX1, PotatoX1}] }

\* the input lists of a run: 1 .. MaxInput records of the listings
Inputs(ls) ==
  UNION {[1..n -> ls.records] : n \in 1..MaxInput}

(***************************************************************************)
(* The state of a scraper                                                  *)
(***************************************************************************)
\* the target of the navigation a strategy may make before its category
\* loop (self.base_url); the category targets are 1, 2, ...
BaseUrl == 0

\* navigate_to_url before its first attempt
NoNav == [target |-> BaseUrl, retries |-> 0, log |-> <<>>, waits |-> <<>>, delays |-> 0, outcome |-> "none"]

\* run_scraping has not returned
NoReport == [returned |-> FALSE, success |-> FALSE, products |-> <<>>, errors |-> <<>>]

\* the pagination routine of a strategy has not been called
NoPaging == [pc |-> "idle", rounds |-> 0, page_count |-> 0, log |-> <<>>, warned |-> FALSE]

\* BaseScraper.__init__
NewScraper(strategy, max_retries) ==
  [ pc             |-> "new",
    strategy       |-> strategy,
    max_retries    |-> max_retries,
    playwright     |-> "none",
    browser        |-> "none",
    page           |-> "none",
    errors         |-> <<>>,
    category_urls  |-> <<>>,
    urls           |-> <<>>,
    visited        |-> <<>>,
    nav            |-> NoNav,
    all_products   |-> <<>>,
    pages_scraped  |-> 0,
    unvalidated    |-> <<>>,
    valid_products |-> <<>>,
    report         |-> NoReport,
    paging         |-> NoPaging,
    raised         |-> "none" ]

\* no scraper takes part in the behaviour
NoScraper == NewScraper("none", 0)

(***************************************************************************)
(* Initial state                                                           *)
(***************************************************************************)
ZeroStats ==
  [ total_scraped |-> 0, products_created |-> 0, products_updated |-> 0,
    prices_added |-> 0, prices_updated |-> 0, duplicates_removed |-> 0,
    invalid_products |-> 0, errors |-> <<>> ]

EmptyDb ==
  [ products |-> <<>>, prices |-> <<>>, history |-> <<>>,
    stores   |-> [s \in StoreIds |->
                    [total_scrapes |-> 0, failed_scrapes |-> 0, last_scraped |-> 0]] ]

NoResult ==
  [ action |-> "none", product_id |-> NoRow, price_updated |-> FALSE,
    run |-> 0, record |-> <<>>, via |-> "none", current |-> NoRow,
    before |-> <<>>, n_products |-> 0, n_prices |-> 0, n_history |-> 0 ]

NoCall == [op |-> "none", input |-> <<>>, output |-> <<>>]

\* no Store row of the backend, no task
NoTasks == [stores |-> <<>>, queue |-> <<>>, task |-> <<>>, beats |-> 0, clock |-> 0]

\* no earlier pass to compare with
NoPass == [record |-> <<>>, store_id |-> 0, time |-> 0]

IdleRun ==
  [ pc |-> "idle", store_id |-> 0, input |-> <<>>, queue |-> <<>>,
    stats |-> ZeroStats, txn_time |-> 0, broken |-> FALSE, infra |-> FALSE,
    outcome |-> "none", undo |-> {}, pre |-> Committed(EmptyDb, {}),
    last |-> <<>>, prev |-> NoPass, exit |-> "none", solo |-> EmptyDb ]

InitWith(all_listings) ==
  /\ db = EmptyDb
  /\ run = [r \in Runs |-> IdleRun]
  /\ result = NoResult
  /\ now = 0
  /\ row_order \in {"asc", "desc"}
  /\ listings \in all_listings
  /\ text = TextOf({p.name : p \in listings.records})
  /\ call = NoCall
  /\ budget = [records |-> 0, faults |-> 0]
  /\ scraper = NoScraper
  /\ tasks = NoTasks

(***************************************************************************)
(* Actions                                                                 *)
(***************************************************************************)
\* time passes between two runs
Tick ==
  /\ \A r \in Runs : run[r].pc # "loop"
  /\ now < MaxTime
  /\ now' = now + 1
  /\ result' = NoResult
  /\ UNCHANGED <<db, run, row_order, listings, text, tasks, call, budget, scraper>>

\* process_scraped_products up to the loop: the counters, _remove_duplicates;
\* the transaction of the run starts at a new instant
BeginRun(r, store_id, scraped_products) ==
  /\ run[r].pc = "idle" \/ (run[r].pc = "done" /\ listings.repeat)
  /\ now < MaxTime
  /\ budget.records + Len(scraped_products) <= MaxRecords
  /\ now' = now + 1
  /\ LET unique_products == remove_duplicates(scraped_products)
     IN run' = [run EXCEPT ![r] =
          [ pc       |-> "loop",
            store_id |-> store_id,
            input    |-> scraped_products,
            queue    |-> unique_products,
            stats    |-> [ZeroStats EXCEPT
                            !.total_scraped = Len(scraped_products),
                            !.duplicates_removed =
                               duplicates_removed(scraped_products, unique_products)],
            txn_time |-> now + 1,
            broken   |-> FALSE,
            infra    |-> FALSE,
            outcome  |-> "none",
            undo     |-> {},
            pre      |-> Committed(db, {}),
            last     |-> <<>>,
            exit     |-> "none",
            solo     |-> db,
            prev     |-> IF run[r].outcome = "committed"
                         THEN [record |-> run[r].last, store_id |-> run[r].store_id,
                               time |-> run[r].txn_time]
                         ELSE NoPass ]]
  /\ budget' = [budget EXCEPT !.records = @ + Len(scraped_products)]
  /\ result' = NoResult
  /\ UNCHANGED <<db, row_order, listings, text, tasks, call, scraper>>

\* the committed rows a step of run r is about to change in memory
UndoWith(d, undo, product_id) ==
  IF product_id # NoRow /\ product_id \in DOMAIN d.products
     /\ d.products[product_id].txn = 0
     /\ ~\E u \in undo : u[1] = product_id
  THEN undo \cup {<<product_id, d.products[product_id]>>}
  ELSE undo

\* one turn of the loop: _process_single_product returns
ProcessProduct(r) ==
  /\ run[r].pc = "loop"
  /\ run[r].queue # <<>>
  /\ ~run[r].broken
  /\ LET scraped_product == Head(run[r].queue)
         res == process_single_product(db, r, run[r].store_id, scraped_product,
                                       now, run[r].txn_time, row_order)
         hit == IF res.action = "updated" THEN res.product_id ELSE NoRow
     IN /\ db' = res.db
        /\ run' = [run EXCEPT
                     ![r].queue = Tail(@),
                     ![r].stats = count_result(@, res),
                     ![r].undo  = UndoWith(db, @, hit),
                     ![r].solo  = process_single_product(@, r, run[r].store_id,
                                    scraped_product, now, run[r].txn_time, row_order).db,
                     ![r].last  = IF res.action = "invalid" THEN <<>>
                                  ELSE <<scraped_product>>]
        /\ result' =
             [ action        |-> res.action,
               product_id    |-> res.product_id,
               price_updated |-> res.price_updated,
               run           |-> r,
               record        |-> <<scraped_product>>,
               via           |-> IF res.action = "invalid" THEN "none"
                                 ELSE MatchedVia(db, r, run[r].store_id, scraped_product),
               current       |-> IF hit = NoRow THEN NoRow
                                 ELSE current_price(db, r, hit, db.products[hit].store_id,
                                                    row_order),
               before        |-> IF hit = NoRow THEN <<>> ELSE <<db.products[hit]>>,
               n_products    |-> Len(db.products),
               n_prices      |-> Len(db.prices),
               n_history     |-> Len(db.history) ]
  /\ UNCHANGED <<now, row_order, listings, text, tasks, call, budget, scraper>>

\* one turn of the loop: _process_single_product raises before it has
\* changed anything, for a reason that is not the database; the loop
\* records the error and goes on
ProcessProductRaises(r) ==
  /\ run[r].pc = "loop"
  /\ run[r].queue # <<>>
  /\ ~run[r].broken
  /\ budget.faults < MaxFaults
  /\ run' = [run EXCEPT ![r].queue = Tail(@), ![r].stats = count_error(@),
                        ![r].last = <<>>]
  /\ budget' = [budget EXCEPT !.faults = @ + 1]
  /\ result' = [NoResult EXCEPT !.action = "error", !.run = r,
                                !.record = <<Head(run[r].queue)>>]
  /\ UNCHANGED <<db, now, row_order, listings, text, tasks, call, scraper>>

\* one turn of the loop: a statement of _process_single_product fails in
\* the database.  The loop records the error and goes on, but the
\* transaction is aborted: every later statement of the session fails
\* until rollback().
ProcessProductDbError(r) ==
  /\ run[r].pc = "loop"
  /\ run[r].queue # <<>>
  /\ ~run[r].broken
  /\ validate_scraped_product(Head(run[r].queue))
  /\ budget.faults < MaxFaults
  /\ run' = [run EXCEPT ![r].queue = Tail(@), ![r].stats = count_error(@),
                        ![r].broken = TRUE, ![r].infra = TRUE, ![r].last = <<>>]
  /\ budget' = [budget EXCEPT !.faults = @ + 1]
  /\ result' = [NoResult EXCEPT !.action = "error", !.run = r,
                                !.record = <<Head(run[r].queue)>>]
  /\ UNCHANGED <<db, now, row_order, listings, text, tasks, call, scraper>>

\* one turn of the loop in an aborted transaction: an invalid record is
\* counted without a statement, any other record fails at its first query
ProcessProductAborted(r) ==
  /\ run[r].pc = "loop"
  /\ run[r].queue # <<>>
  /\ run[r].broken
  /\ run' = [run EXCEPT
               ![r].queue = Tail(@),
               ![r].last  = <<>>,
               ![r].stats = IF validate_scraped_product(Head(run[r].queue))
                            THEN count_error(@)
                            ELSE [@ EXCEPT !.invalid_products = @ + 1]]
  /\ result' = [NoResult EXCEPT !.action = "error", !.run = r,
                                !.record = <<Head(run[r].queue)>>]
  /\ UNCHANGED <<db, now, row_order, listings, text, tasks, call, budget, scraper>>

\* after the loop: _update_store_stats and db.commit() succeed
FinishRun(r) ==
  /\ run[r].pc = "loop"
  /\ run[r].queue = <<>>
  /\ ~run[r].broken
  /\ db' = commit(update_store_stats(db, run[r].store_id, run[r].stats, now), r)
  /\ run' = [run EXCEPT ![r].pc = "done", ![r].outcome = "committed", ![r].undo = {},
                        ![r].exit = "return",
                        ![r].solo = commit(update_store_stats(@, run[r].store_id,
                                                              run[r].stats, now), r)]
  /\ result' = NoResult
  /\ UNCHANGED <<now, row_order, listings, text, tasks, call, budget, scraper>>

\* after the loop: _update_store_stats or db.commit() raises (always so in
\* an aborted transaction); the outer except rolls back and records the
\* message, nothing is re-raised and the function returns the statistics
FinishRunFails(r) ==
  /\ run[r].pc = "loop"
  /\ run[r].queue = <<>>
  /\ run[r].broken \/ budget.faults < MaxFaults
  /\ db' = rollback(db, r, run[r].undo)
  /\ run' = [run EXCEPT ![r].pc = "done", ![r].outcome = "rolled_back",
                        ![r].infra = TRUE, ![r].undo = {},
                        ![r].exit = "return",
                        ![r].solo = rollback(@, r, run[r].undo),
                        ![r].stats.errors = Append(@, "fatal")]
  /\ budget' = IF run[r].broken THEN budget ELSE [budget EXCEPT !.faults = @ + 1]
  /\ result' = NoResult
  /\ UNCHANGED <<now, row_order, listings, text, tasks, call, scraper>>

Step(r) ==
  \/ \E s \in listings.assign[r], input \in Inputs(listings) : BeginRun(r, s, input)
  \/ ProcessProduct(r)
  \/ ProcessProductRaises(r)
  \/ ProcessProductDbError(r)
  \/ ProcessProductAborted(r)
  \/ FinishRun(r)
  \/ FinishRunFails(r)

Next == Tick \/ \E r \in Runs : Step(r)

PriceSpec == InitWith(PriceListings) /\ [][Next]_vars

MatchSpec == InitWith(MatchListings) /\ [][Next]_vars

ConcurrentSpec == InitWith(ConcurrentListings) /\ [][Next]_vars

(***************************************************************************)
(* The retention cleanup                                                   *)
(***************************************************************************)
\* the values of days_to_keep the cleanup is called with (a day is two
\* units of the clock)
DaysToKeep == {0, 1}

\* time < cutoff_date, where cutoff_date = datetime.now() - timedelta(days_to_keep)
before_cutoff(time, t, days_to_keep) == Hours(t - time) > 24 * days_to_keep

\* the row is one of the latest of its (product_id, store_id) pair: its
\* scraped_at is the max_date of the subquery
latest_of_pair(prices, p) ==
  \A i \in DOMAIN prices :
     (prices[i].product_id = p.product_id /\ prices[i].store_id = p.store_id) =>
        prices[i].scraped_at <= p.scraped_at

\* the rows the three statements of clean_old_data select
old_history(d, t, days_to_keep) == {i \in DOMAIN d.history : before_cutoff(d.history[i].recorded_at, t, days_to_keep)}

old_prices(d, t, days_to_keep) ==
  {i \in DOMAIN d.prices : ~latest_of_pair(d.prices, d.prices[i]) /\ before_cutoff(d.prices[i].scraped_at, t, days_to_keep)}

inactive_products(d, t, days_to_keep) ==
  {i \in DOMAIN d.products :
     /\ d.products[i].txn = 0
     /\ d.products[i].is_active
     /\ ~\E k \in DOMAIN d.prices : d.prices[k].product_id = i /\ ~before_cutoff(d.prices[k].scraped_at, t, days_to_keep)}

\* DataProcessor.clean_old_data up to its commit: the tables, and the
\* statistics it returns
clean_old_data(d, t, days_to_keep) ==
  LET gone_history == old_history(d, t, days_to_keep)
      gone_prices  == old_prices(d, t, days_to_keep)
      d1 == [d EXCEPT !.history = [k \in 1..(Len(@) - Cardinality(gone_history)) |-> @[CHOOSE i \in DOMAIN @ \ gone_history : Cardinality({j \in DOMAIN @ \ gone_history : j <= i}) = k]],
                      !.prices  = [k \in 1..(Len(@) - Cardinality(gone_prices)) |-> @[CHOOSE i \in DOMAIN @ \ gone_prices : Cardinality({j \in DOMAIN @ \ gone_prices : j <= i}) = k]]]
      inactive == inactive_products(d1, t, days_to_keep)
  IN [ db    |-> [d1 EXCEPT !.products = [i \in DOMAIN @ |-> IF i \in inactive THEN [@[i] EXCEPT !.is_active = FALSE, !.updated_at = t] ELSE @[i]]],
       stats |-> [ price_history_deleted     |-> Cardinality(gone_history),
                   old_prices_deleted        |-> Cardinality(gone_prices),
                   inactive_products_deleted |-> Cardinality(inactive) ] ]

\* a call of clean_old_data in a session of its own, while no run is in
\* its loop: the commit succeeds ("ok"), or it raises and the except
\* branch rolls back ("raised"); the statistics are returned in both cases
CleanOldData(days_to_keep, answer) ==
  /\ \A r \in Runs : run[r].pc # "loop"
  /\ LET cleaned == clean_old_data(db, now, days_to_keep)
     IN /\ db' = IF answer = "ok" THEN cleaned.db ELSE db
        /\ call' = [op |-> "clean_old_data", input |-> <<days_to_keep, answer>>, output |-> <<cleaned.stats>>]
  /\ result' = NoResult
  /\ UNCHANGED <<run, now, row_order, listings, text, tasks, budget, scraper>>

\* the listings of the runs between cleanups
CleanupListings == {[assign |-> OneRun({1}), repeat |-> TRUE, records |-> {Tomato2000, Tomato2100}]}

CleanupNext ==
  \/ Next
  \/ \E days_to_keep \in DaysToKeep, answer \in {"ok", "raised"} : CleanOldData(days_to_keep, answer)

CleanupSpec == InitWith(CleanupListings) /\ [][CleanupNext]_vars

(***************************************************************************)
(* Direct calls of the pure helpers                                        *)
(***************************************************************************)
MaxList == 3

Kg2000 == ScrapedProduct("Tomato 1kg", 20000, 0, Empty, TRUE, FALSE, NoFields)

LowerKg2000 == ScrapedProduct("tomato 1kg", 20000, 0, Empty, TRUE, FALSE, NoFields)

Kg2100 == ScrapedProduct("Tomato 1kg", 21000, 0, Empty, TRUE, FALSE, NoFields)

\* 20.004, which rounds to 20.00, under a name that normalises to "tomato 1kg"
KgPack2000 == ScrapedProduct("Tomato 1kg pack", 20004, 0, Empty, TRUE, FALSE, NoFields)

PureRecords == {Kg2000, LowerKg2000, Kg2100, KgPack2000}

\* the argument lists of _remove_duplicates: up to MaxList records
Lists == UNION {[1..n -> PureRecords] : n \in 0..MaxList}

PureInit ==
  /\ db = EmptyDb
  /\ run = [r \in Runs |-> IdleRun]
  /\ result = NoResult
  /\ now = 0
  /\ row_order = "asc"
  /\ listings = [assign |-> OneRun({}), repeat |-> TRUE, records |-> PureRecords]
  /\ text = TextOf(DOMAIN NameText)
  /\ call = NoCall
  /\ budget = [records |-> 0, faults |-> 0]
  /\ scraper = NoScraper
  /\ tasks = NoTasks

\* _remove_duplicates(products), and the counter process_scraped_products
\* derives from its result
RemoveDuplicates(products) ==
  /\ call' = [ op     |-> "remove_duplicates",
               input  |-> products,
               output |-> LET unique_products == remove_duplicates(products)
                          IN [ unique_products    |-> unique_products,
                               duplicates_removed |->
                                 duplicates_removed(products, unique_products) ] ]
  /\ UNCHANGED <<db, run, result, now, row_order, listings, text, tasks, budget, scraper>>

\* _normalize_product_name(name)
NormalizeProductName(name) ==
  /\ call' = [op |-> "normalize_product_name", input |-> <<name>>,
              output |-> text.normalized[name]]
  /\ UNCHANGED <<db, run, result, now, row_order, listings, text, tasks, budget, scraper>>

\* the test of the fuzzy loop on the names of a record and of a product
CalculateSimilarity(name1, name2) ==
  /\ call' = [ op     |-> "calculate_similarity",
               input  |-> <<name1, name2>>,
               output |-> [ similarity |-> text.similarity[name1, name2],
                            matches    |-> is_similar(text.similarity[name1, name2]) ] ]
  /\ UNCHANGED <<db, run, result, now, row_order, listings, text, tasks, budget, scraper>>

PureNext ==
  \/ \E products \in Lists : RemoveDuplicates(products)
  \/ \E name \in DOMAIN NameText : NormalizeProductName(name)
  \/ \E name1 \in DOMAIN NameText, name2 \in DOMAIN NameText :
       CalculateSimilarity(name1, name2)

PureSpec == PureInit /\ [][PureNext]_vars

(***************************************************************************)
(* The scraper: session, navigation, category loop, validation             *)
(***************************************************************************)
MaxRetries == 2

MaxTargets == 2

MaxProducts == 2

\* a record built with discount_percentage passed by the scraper, so that
\* __post_init__ leaves the flag the scraper set
OverpricedFlagged == [Overpriced EXCEPT !.is_discounted = TRUE]

Free == ScrapedProduct("Tomato", 0, 0, Empty, TRUE, FALSE, NoFields)

ScraperRecords == {Tomato2000, TomatoSale, OverpricedFlagged, Nameless, Free}

\* what extract_products_from_page may return for one category page (a run
\* collects up to MaxProducts records over its pages)
Pages == UNION {[1..n -> ScraperRecords] : n \in 0..MaxProducts}

\* the category_urls argument of run_scraping
CategoryUrls == {[i \in 1..n |-> i] : n \in 0..MaxTargets}

\* the strategies: GourmetScraper starts its category loop at once,
\* TalabatScraper first navigates to its base url, outside the loop
Strategies == {"gourmet", "talabat"}

\* a close step that fails leaves its resource as it is
Close(state, fails) == IF state = "open" /\ ~fails THEN "closed" ELSE state

\* BaseScraper.cleanup: page.close(), browser.close(), playwright.stop() in
\* one try block; fail names the step that raises ("none": no step does),
\* the steps after it are skipped and the exception is logged
cleanup(sc, fail) ==
  IF sc.page = "open" /\ fail = "page" THEN sc
  ELSE IF sc.browser = "open" /\ fail = "browser"
  THEN [sc EXCEPT !.page = Close(@, FALSE)]
  ELSE IF sc.playwright = "open" /\ fail = "playwright"
  THEN [sc EXCEPT !.page = Close(@, FALSE), !.browser = Close(@, FALSE)]
  ELSE [sc EXCEPT !.page = Close(@, FALSE), !.browser = Close(@, FALSE),
                  !.playwright = Close(@, FALSE)]

\* the steps of setup_browser in order
SetupSteps == <<"start", "launch", "new_context", "new_page">>

\* the step of setup_browser that raises; "none": every step succeeds
SetupFailures == {"none"} \cup {SetupSteps[i] : i \in DOMAIN SetupSteps}

\* the step of cleanup that raises; "none": no step does
CloseFailures == {"none", "page", "browser", "playwright"}

\* BaseScraper.setup_browser up to the step that raises: what is acquired
acquire(sc, fail_at) ==
  [sc EXCEPT !.playwright = IF fail_at = "start" THEN @ ELSE "open",
             !.browser    = IF fail_at \in {"start", "launch"} THEN @ ELSE "open",
             !.page       = IF fail_at = "none" THEN "open" ELSE @]

\* BaseScraper.setup_browser
setup_browser(sc, fail_at, close_fail) ==
  IF fail_at = "none"
  THEN [acquire(sc, fail_at) EXCEPT !.pc = "scope"]
  ELSE [cleanup(acquire(sc, fail_at), close_fail) EXCEPT
          !.pc = "left", !.raised = "ScraperError"]

\* a plausible slip: the same wait before every retry
backoff_fixed(attempt) == 1

\* 2 ** attempt
backoff(attempt) == 2 ^ attempt

\* an entry of self.errors / ScraperResult.errors: the message, and the
\* category target (BaseUrl: none) or the record name (Empty: none) in it
ErrorEntry(kind, target, name) == [kind |-> kind, target |-> target, name |-> name]

\* a plausible slip: the price check leaves original_price as scraped
validate_product_keeps(product) ==
  [ ok      |-> ~text.blank[product.name] /\ product.price > 0,
    product |-> product ]

\* BaseScraper.validate_product: the verdict, and the record as the call
\* leaves it (the record is changed in place)
validate_product(product) ==
  IF text.blank[product.name] THEN [ok |-> FALSE, product |-> product]
  ELSE IF product.price <= 0 THEN [ok |-> FALSE, product |-> product]
  ELSE IF product.original_price # 0 /\ product.original_price < product.price
  THEN [ ok      |-> TRUE,
         product |-> [product EXCEPT !.original_price = 0, !.is_discounted = FALSE] ]
  ELSE [ok |-> TRUE, product |-> product]

\* a plausible slip: success as scrape_products computed it, before validation
run_success_found(valid_products, all_products) == Len(all_products) > 0

\* result.success of run_scraping
run_success(valid_products, all_products) == Len(valid_products) > 0

\* the category loop of scrape_products goes on with the next target; after
\* the last one scrape_products returns its ScraperResult, whose errors list
\* is self.errors itself, and run_scraping starts to validate
next_target(sc) ==
  IF sc.urls = <<>>
  THEN [sc EXCEPT !.pc = "validate", !.unvalidated = sc.all_products, !.nav = NoNav]
  ELSE [sc EXCEPT !.pc = "navigate",
                  !.urls = Tail(@),
                  !.nav = [NoNav EXCEPT !.target = Head(sc.urls),
                                        !.retries = sc.max_retries,
                                        !.outcome = "running"]]

\* where run_scraping returns to: the body of the scope that called it, or
\* a caller that opened no scope (the page is still None)
return_to(sc) == IF sc.page = "none" THEN "returned" ELSE "scope"

\* the except branch of run_scraping: the exception becomes a report
scraping_failed(sc) ==
  [sc EXCEPT !.pc = return_to(sc),
             !.nav = NoNav,
             !.report = [ returned |-> TRUE, success |-> FALSE, products |-> <<>>,
                          errors |-> <<ErrorEntry("scraping_failed", BaseUrl, Empty)>> ]]

\* what the caller of navigate_to_url does with its result: the home
\* navigation of TalabatScraper ignores the value and lets an exception
\* leave scrape_products; in the category loop False and an exception both
\* add an entry and go on with the next target, True goes on to the page
\* (the attempts and waits of the call are gone with the call)
after_navigation(sc, outcome) ==
  LET target == sc.nav.target
      failed == Append(sc.visited, [target |-> target, outcome |-> "navigation_failed"])
  IN IF target = BaseUrl
     THEN IF outcome \in {"timeout", "navigation"} THEN scraping_failed(sc)
          ELSE next_target(sc)
     ELSE IF outcome = "true"
     THEN [sc EXCEPT !.pc = "page", !.nav = [NoNav EXCEPT !.target = target]]
     ELSE IF outcome = "false"
     THEN next_target([sc EXCEPT !.visited = failed,
                                 !.errors = Append(@, ErrorEntry("navigate", target, Empty))])
     ELSE next_target([sc EXCEPT !.visited = failed,
                                 !.errors = Append(@, ErrorEntry("category", target, Empty))])

\* one turn of the loop of navigate_to_url: page.goto answers with
\* "ok" (a response with status < 400), "http" (status >= 400 or no
\* response), "timeout" (PlaywrightTimeoutError) or "error" (any other
\* exception); with the random delay, the backoff sleep, and the return
\* or raise when the turn is the last
navigate_to_url(nav, answer) ==
  LET attempt == Len(nav.log)
      log     == Append(nav.log, answer)
  IN IF answer = "ok"
     THEN [nav EXCEPT !.log = log, !.delays = @ + 1, !.outcome = "true"]
     ELSE IF answer = "timeout" /\ attempt = nav.retries
     THEN [nav EXCEPT !.log = log, !.outcome = "timeout"]
     ELSE IF answer = "error" /\ attempt = nav.retries
     THEN [nav EXCEPT !.log = log, !.outcome = "navigation"]
     ELSE [nav EXCEPT !.log = log,
                      !.waits = Append(@, backoff(attempt)),
                      !.outcome = IF attempt = nav.retries THEN "false" ELSE "running"]

\* async with scraper: __aenter__
SetupBrowser(fail_at, close_fail) ==
  /\ scraper.pc = "new"
  /\ scraper' = setup_browser(scraper, fail_at, close_fail)
  /\ UNCHANGED <<db, run, result, now, row_order, listings, text, tasks, call, budget>>

\* run_scraping(category_urls) up to the first navigation of scrape_products,
\* called in the body of the scope or on a scraper that entered no scope:
\* run_scraping itself neither sets up nor cleans up the browser
RunScraping(category_urls) ==
  /\ scraper.pc \in {"scope", "new"}
  /\ ~scraper.report.returned
  /\ LET sc == [scraper EXCEPT !.category_urls = category_urls, !.urls = category_urls]
     IN scraper' =
          IF sc.strategy = "talabat"
          THEN [sc EXCEPT !.pc = "navigate",
                          !.nav = [NoNav EXCEPT !.retries = sc.max_retries,
                                                !.outcome = "running"]]
          ELSE next_target(sc)
  /\ UNCHANGED <<db, run, result, now, row_order, listings, text, tasks, call, budget>>

\* one attempt of navigate_to_url; while self.page is None page.goto raises
\* AttributeError, which the except Exception branch of the loop catches
NavigateAttempt(answer) ==
  /\ scraper.pc = "navigate"
  /\ scraper.nav.outcome = "running"
  /\ scraper.page = "none" => answer = "error"
  /\ scraper' = [scraper EXCEPT !.nav = navigate_to_url(@, answer)]
  /\ UNCHANGED <<db, run, result, now, row_order, listings, text, tasks, call, budget>>

\* navigate_to_url has returned or raised: its caller's reaction
AfterNavigation ==
  /\ scraper.pc = "navigate"
  /\ scraper.nav.outcome # "running"
  /\ scraper' = after_navigation(scraper, scraper.nav.outcome)
  /\ UNCHANGED <<db, run, result, now, row_order, listings, text, tasks, call, budget>>

\* the rest of a turn of the category loop after a successful navigation:
\* wait_for_selector finds the grid and the page is extracted ("found"),
\* times out ("selector_timeout": logged, next target), or a statement of
\* the turn raises ("error": the outer except adds an entry)
ScrapeCategoryPage(outcome, products) ==
  /\ scraper.pc = "page"
  /\ outcome = "found" \/ products = <<>>
  /\ Len(scraper.all_products) + Len(products) <= MaxProducts
  /\ LET target == scraper.nav.target
         seen   == Append(scraper.visited, [target |-> target, outcome |-> outcome])
     IN scraper' =
          IF outcome = "found"
          THEN next_target([scraper EXCEPT !.visited = seen,
                                           !.all_products = @ \o products,
                                           !.pages_scraped = @ + 1])
          ELSE IF outcome = "selector_timeout"
          THEN next_target([scraper EXCEPT !.visited = seen])
          ELSE next_target([scraper EXCEPT !.visited = seen,
                                           !.errors = Append(@, ErrorEntry("category", target, Empty))])
  /\ UNCHANGED <<db, run, result, now, row_order, listings, text, tasks, call, budget>>

\* one turn of the validation loop of run_scraping
ValidateProduct ==
  /\ scraper.pc = "validate"
  /\ scraper.unvalidated # <<>>
  /\ LET product == Head(scraper.unvalidated)
         verdict == validate_product(product)
     IN scraper' =
          IF verdict.ok
          THEN [scraper EXCEPT !.unvalidated = Tail(@),
                               !.valid_products = Append(@, verdict.product)]
          ELSE [scraper EXCEPT !.unvalidated = Tail(@),
                               !.errors = Append(@, ErrorEntry("invalid", BaseUrl, product.name))]
  /\ UNCHANGED <<db, run, result, now, row_order, listings, text, tasks, call, budget>>

\* the end of run_scraping: result.errors, which is self.errors, is
\* extended by self.errors, success is set and the result returned
ReturnResult ==
  /\ scraper.pc = "validate"
  /\ scraper.unvalidated = <<>>
  /\ scraper' = [scraper EXCEPT
                   !.pc = return_to(scraper),
                   !.errors = @ \o @,
                   !.report = [ returned |-> TRUE,
                                success  |-> run_success(scraper.valid_products,
                                                         scraper.all_products),
                                products |-> scraper.valid_products,
                                errors   |-> scraper.errors \o scraper.errors ]]
  /\ UNCHANGED <<db, run, result, now, row_order, listings, text, tasks, call, budget>>

\* the scope is left: at the end of its body, or inside it when the body
\* is cancelled at an await (run_scraping catches Exception; the await
\* taken here is the wait for the grid of a category page); __aexit__
\* calls cleanup and the exception, if any, goes on to the caller
ExitScope(close_fail) ==
  /\ scraper.pc \in {"scope", "page"}
  /\ scraper' = [cleanup(scraper, close_fail) EXCEPT
                   !.pc = "left",
                   !.raised = IF scraper.pc = "scope" THEN "none" ELSE "body"]
  /\ UNCHANGED <<db, run, result, now, row_order, listings, text, tasks, call, budget>>

ScrapeInit ==
  /\ db = EmptyDb
  /\ run = [r \in Runs |-> IdleRun]
  /\ result = NoResult
  /\ now = 0
  /\ row_order = "asc"
  /\ listings = [assign |-> OneRun({}), repeat |-> TRUE, records |-> ScraperRecords]
  /\ text = TextOf({p.name : p \in ScraperRecords})
  /\ call = NoCall
  /\ budget = [records |-> 0, faults |-> 0]
  /\ scraper \in {NewScraper(s, n) : s \in Strategies, n \in 0..MaxRetries}
  /\ tasks = NoTasks

ScrapeNext ==
  \/ \E fail_at \in SetupFailures, close_fail \in CloseFailures : SetupBrowser(fail_at, close_fail)
  \/ \E category_urls \in CategoryUrls : RunScraping(category_urls)
  \/ \E answer \in {"ok", "http", "timeout", "error"} : NavigateAttempt(answer)
  \/ AfterNavigation
  \/ \E outcome \in {"found", "selector_timeout", "error"}, products \in Pages : ScrapeCategoryPage(outcome, products)
  \/ ValidateProduct
  \/ ReturnResult
  \/ \E close_fail \in CloseFailures : ExitScope(close_fail)

ScrapeSpec == ScrapeInit /\ [][ScrapeNext]_vars

(***************************************************************************)
(* Pagination and lazy loading of a category page                          *)
(***************************************************************************)
\* the rounds of a routine the model follows
MaxRounds == 6

\* the strategies whose routine scrolls and compares the height of the page
\* (scroll_to_load_products, handle_infinite_scroll)
ScrollStrategies == {"gourmet", "rabbit"}

\* the strategies whose routine clicks "load more" or "next"
\* (handle_metro_pagination, handle_spinneys_pagination, handle_pagination)
ClickStrategies == {"metro", "spinneys", "instashop"}

\* for _ in range(5) of GourmetScraper, range(4) of RabbitScraper
max_scrolls(strategy) == IF strategy = "gourmet" THEN 5 ELSE 4

\* max_pages of MetroScraper, SpinneysScraper, InstashopScraper
max_pages(strategy) == IF strategy = "metro" THEN 3 ELSE IF strategy = "spinneys" THEN 4 ELSE 5

\* a plausible slip: a click that is not counted
count_page_missed(page_count) == page_count

\* page_count += 1
count_page(page_count) == page_count + 1

\* the except Exception branch around a routine: a warning is logged and
\* the routine returns
paging_warned(paging) == [paging EXCEPT !.pc = "returned", !.warned = TRUE]

\* last_height = await self.page.evaluate(...) before the loop of a scroll
\* routine: the call answers ("ok") or raises ("raised")
start_scrolling(paging, answer) ==
  IF answer = "raised" THEN paging_warned([paging EXCEPT !.log = Append(@, answer)])
  ELSE [paging EXCEPT !.pc = "loop"]

\* one turn of the for loop of a scroll routine that has max turns: the page
\* is scrolled and its height read again; the height has grown ("grew"), is
\* the same ("same": break) or one of the calls raises ("raised")
scroll_round(paging, max, answer) ==
  LET turned == [paging EXCEPT !.rounds = @ + 1, !.log = Append(@, answer)]
  IN IF answer = "raised" THEN paging_warned(turned)
     ELSE IF answer = "same" THEN [turned EXCEPT !.pc = "returned"]
     ELSE [turned EXCEPT !.pc = IF turned.rounds = max THEN "returned" ELSE "loop"]

\* one turn of the while loop of a click routine (while page_count < max):
\* the page is scrolled, then the "more" button is clicked ("more_clicked")
\* or its click raises ("more_failed": break), or the enabled "next" button
\* is clicked ("next_clicked") or its click raises ("next_failed": break),
\* or neither button is there or enabled ("no_button": break), or another
\* call of the turn raises ("raised")
pagination_round(paging, max, answer) ==
  LET turned == [paging EXCEPT !.rounds = @ + 1, !.log = Append(@, answer)]
  IN IF answer \in {"more_clicked", "next_clicked"}
     THEN [turned EXCEPT !.page_count = count_page(@),
                         !.pc = IF count_page(paging.page_count) < max THEN "loop" ELSE "returned"]
     ELSE IF answer = "raised" THEN paging_warned(turned)
     ELSE [turned EXCEPT !.pc = "returned"]

\* a scraper inside its scope whose category loop has navigated to a page and
\* found the grid: the routine of its strategy is about to be called
OnCategoryPage(strategy) ==
  [NewScraper(strategy, 0) EXCEPT !.pc = "page", !.playwright = "open", !.browser = "open", !.page = "open",
                                   !.category_urls = <<1>>, !.nav = [NoNav EXCEPT !.target = 1]]

PaginationInit ==
  /\ db = EmptyDb
  /\ run = [r \in Runs |-> IdleRun]
  /\ result = NoResult
  /\ now = 0
  /\ row_order = "asc"
  /\ listings = [assign |-> OneRun({}), repeat |-> TRUE, records |-> {}]
  /\ text = TextOf({})
  /\ call = NoCall
  /\ budget = [records |-> 0, faults |-> 0]
  /\ scraper \in {OnCategoryPage(s) : s \in ScrollStrategies \cup ClickStrategies}
  /\ tasks = NoTasks

\* scroll_to_load_products / handle_infinite_scroll up to the loop
StartScrolling(answer) ==
  /\ scraper.pc = "page"
  /\ scraper.strategy \in ScrollStrategies
  /\ scraper.paging.pc = "idle"
  /\ scraper' = [scraper EXCEPT !.paging = start_scrolling(@, answer)]
  /\ UNCHANGED <<db, run, result, now, row_order, listings, text, tasks, call, budget>>

\* one turn of the loop of scroll_to_load_products / handle_infinite_scroll
ScrollRound(answer) ==
  /\ scraper.pc = "page"
  /\ scraper.strategy \in ScrollStrategies
  /\ scraper.paging.pc = "loop"
  /\ scraper.paging.rounds < MaxRounds
  /\ scraper' = [scraper EXCEPT !.paging = scroll_round(@, max_scrolls(scraper.strategy), answer)]
  /\ UNCHANGED <<db, run, result, now, row_order, listings, text, tasks, call, budget>>

\* one turn of the loop of handle_metro_pagination,
\* handle_spinneys_pagination or handle_pagination (page_count = 0 and the
\* first test of the while condition need no call)
PaginationRound(answer) ==
  /\ scraper.pc = "page"
  /\ scraper.strategy \in ClickStrategies
  /\ scraper.paging.pc \in {"idle", "loop"}
  /\ scraper.paging.rounds < MaxRounds
  /\ scraper' = [scraper EXCEPT !.paging = pagination_round(@, max_pages(scraper.strategy), answer)]
  /\ UNCHANGED <<db, run, result, now, row_order, listings, text, tasks, call, budget>>

PaginationNext ==
  \/ \E answer \in {"ok", "raised"} : StartScrolling(answer)
  \/ \E answer \in {"grew", "same", "raised"} : ScrollRound(answer)
  \/ \E answer \in {"more_clicked", "more_failed", "next_clicked", "next_failed", "no_button", "raised"} : PaginationRound(answer)

\* the event loop runs the routine on: every call it awaits answers or
\* raises within its timeout
PaginationSpec == PaginationInit /\ [][PaginationNext]_vars /\ WF_vars(PaginationNext)

(***************************************************************************)
(* The Celery tasks of the backend                                         *)
(***************************************************************************)
\* the stores of the backend
MaxStores == 2

BackendStores == 1..MaxStores

\* the times the tasks of all stores are queued
MaxBeats == 2

\* the keys of SCRAPER_MAP (one of them stands for all)
SCRAPER_MAP == {"GourmetScraper"}

\* a Store row before any task: status has the column default "idle";
\* scraper_class and is_active are what the row was loaded with
StoreRows == [status : {"idle"}, scraper_class : {"GourmetScraper", "NoSuchScraper"}, is_active : BOOLEAN, last_scraped : {0}, prices : {0}]

\* no task of the store has run
NoTask == [pc |-> "none", products_data |-> 0, scrape |-> "none", save |-> "none"]

\* BaseScraper.scrape of the backend: the list scrape_all_products returned
\* (n products, answer "returned"), or [] when anything in the try block
\* raised (answer "caught"); the browser is closed in both cases
scrape(n, answer) == IF answer = "caught" THEN 0 ELSE n

\* scrape_store_task up to its first commit: the store is looked up, then
\* either its scraper class is not in SCRAPER_MAP (status "offline",
\* return) or the status becomes "scraping"
begin_store_task(t, s) ==
  IF t.stores[s].scraper_class \notin SCRAPER_MAP
  THEN [t EXCEPT !.queue[s] = @ - 1, !.stores[s].status = "offline",
                 !.task[s] = [NoTask EXCEPT !.pc = "done", !.scrape = "no_scraper"]]
  ELSE [t EXCEPT !.queue[s] = @ - 1, !.stores[s].status = "scraping",
                 !.task[s] = [NoTask EXCEPT !.pc = "scraping"]]

\* the rest of scrape_store_task: scraper.scrape(), save_scraped_data (one
\* Price row per product and a commit, or a rollback and the exception
\* raised again), then status "online" and last_scraped, or the except
\* branch with status "offline"
finish_store_task(t, s, n, answer, saving) ==
  LET products_data == scrape(n, answer)
      done == [pc |-> "done", products_data |-> products_data, scrape |-> answer, save |-> saving]
  IN IF saving = "saved"
     THEN [t EXCEPT !.clock = @ + 1, !.task[s] = done, !.stores[s].prices = @ + products_data,
                    !.stores[s].status = "online", !.stores[s].last_scraped = t.clock + 1]
     ELSE [t EXCEPT !.clock = @ + 1, !.task[s] = done, !.stores[s].status = "offline"]

TaskInit ==
  /\ db = EmptyDb
  /\ run = [r \in Runs |-> IdleRun]
  /\ result = NoResult
  /\ now = 0
  /\ row_order = "asc"
  /\ listings = [assign |-> OneRun({}), repeat |-> TRUE, records |-> {}]
  /\ text = TextOf({})
  /\ call = NoCall
  /\ budget = [records |-> 0, faults |-> 0]
  /\ scraper = NoScraper
  /\ tasks \in [stores : [BackendStores -> StoreRows], queue : {[s \in BackendStores |-> 0]}, task : {[s \in BackendStores |-> NoTask]}, beats : {0}, clock : {0}]

\* scrape_all_stores_task (the beat schedule) or trigger_scraping (the
\* API): a message is queued for every active store; a query that raises
\* queues nothing
ScrapeAllStoresTask(answer) ==
  /\ tasks.beats < MaxBeats
  /\ tasks' = [tasks EXCEPT !.beats = @ + 1,
                            !.queue = [s \in BackendStores |-> IF answer = "ok" /\ tasks.stores[s].is_active THEN @[s] + 1 ELSE @[s]]]
  /\ UNCHANGED <<db, run, result, now, row_order, listings, text, call, budget, scraper>>

\* a worker takes the message of store s: scrape_store_task up to its
\* first commit (one task of a store at a time)
BeginStoreTask(s) ==
  /\ tasks.queue[s] > 0
  /\ tasks.task[s].pc # "scraping"
  /\ tasks' = begin_store_task(tasks, s)
  /\ UNCHANGED <<db, run, result, now, row_order, listings, text, call, budget, scraper>>

\* the task of store s scrapes, saves and sets the status
FinishStoreTask(s, n, answer, saving) ==
  /\ tasks.task[s].pc = "scraping"
  /\ tasks' = finish_store_task(tasks, s, n, answer, saving)
  /\ UNCHANGED <<db, run, result, now, row_order, listings, text, call, budget, scraper>>

TaskNext ==
  \/ \E answer \in {"ok", "raised"} : ScrapeAllStoresTask(answer)
  \/ \E s \in BackendStores : BeginStoreTask(s)
  \/ \E s \in BackendStores, n \in 0..MaxProducts, answer \in {"returned", "caught"}, saving \in {"saved", "save_failed"} : FinishStoreTask(s, n, answer, saving)

TaskSpec == TaskInit /\ [][TaskNext]_vars

(***************************************************************************)
(* The category classifier                                                 *)
(***************************************************************************)
\* the strings the classifier meets, each with its characters
ClassifierStrings ==
  << <<"", <<>>>>,
     <<"Acme", <<"A","c","m","e">>>>,
     <<"Almarai", <<"A","l","m","a","r","a","i">>>>,
     <<"Almarai Full Fat Milk 1L", <<"A","l","m","a","r","a","i"," ","F","u","l","l"," ","F","a","t"," ","M","i","l","k"," ","1","L">>>>,
     <<"Almarais", <<"A","l","m","a","r","a","i","s">>>>,
     <<"Cream Soda 330ml", <<"C","r","e","a","m"," ","S","o","d","a"," ","3","3","0","m","l">>>>,
     <<"Dairy", <<"D","a","i","r","y">>>>,
     <<"Dairy Aisle", <<"D","a","i","r","y"," ","A","i","s","l","e">>>>,
     <<"Drinks", <<"D","r","i","n","k","s">>>>,
     <<"Fresh", <<"F","r","e","s","h">>>>,
     <<"Gift Card", <<"G","i","f","t"," ","C","a","r","d">>>>,
     <<"Milk", <<"M","i","l","k">>>>,
     <<"Pepsi", <<"P","e","p","s","i">>>>,
     <<"Pepsi Soap 1kg", <<"P","e","p","s","i"," ","S","o","a","p"," ","1","k","g">>>>,
     <<"almarai", <<"a","l","m","a","r","a","i">>>>,
     <<"almond milk", <<"a","l","m","o","n","d"," ","m","i","l","k">>>>,
     <<"baby", <<"b","a","b","y">>>>,
     <<"baby milk", <<"b","a","b","y"," ","m","i","l","k">>>>,
     <<"baby soap", <<"b","a","b","y"," ","s","o","a","p">>>>,
     <<"bag", <<"b","a","g">>>>,
     <<"baked", <<"b","a","k","e","d">>>>,
     <<"bakery", <<"b","a","k","e","r","y">>>>,
     <<"baking soda", <<"b","a","k","i","n","g"," ","s","o","d","a">>>>,
     <<"beauty", <<"b","e","a","u","t","y">>>>,
     <<"beverages", <<"b","e","v","e","r","a","g","e","s">>>>,
     <<"bottle", <<"b","o","t","t","l","e">>>>,
     <<"bread", <<"b","r","e","a","d">>>>,
     <<"bunch", <<"b","u","n","c","h">>>>,
     <<"can", <<"c","a","n">>>>,
     <<"canned", <<"c","a","n","n","e","d">>>>,
     <<"carbonated", <<"c","a","r","b","o","n","a","t","e","d">>>>,
     <<"case", <<"c","a","s","e">>>>,
     <<"cashew milk", <<"c","a","s","h","e","w"," ","m","i","l","k">>>>,
     <<"cleaner", <<"c","l","e","a","n","e","r">>>>,
     <<"cleaning", <<"c","l","e","a","n","i","n","g">>>>,
     <<"coconut milk", <<"c","o","c","o","n","u","t"," ","m","i","l","k">>>>,
     <<"cream", <<"c","r","e","a","m">>>>,
     <<"cream cheese", <<"c","r","e","a","m"," ","c","h","e","e","s","e">>>>,
     <<"dairy", <<"d","a","i","r","y">>>>,
     <<"detergent", <<"d","e","t","e","r","g","e","n","t">>>>,
     <<"dozen", <<"d","o","z","e","n">>>>,
     <<"dried", <<"d","r","i","e","d">>>>,
     <<"drink", <<"d","r","i","n","k">>>>,
     <<"drinks", <<"d","r","i","n","k","s">>>>,
     <<"eat", <<"e","a","t">>>>,
     <<"farm", <<"f","a","r","m">>>>,
     <<"fat", <<"f","a","t">>>>,
     <<"food", <<"f","o","o","d">>>>,
     <<"fresh", <<"f","r","e","s","h">>>>,
     <<"frozen", <<"f","r","o","z","e","n">>>>,
     <<"fruits", <<"f","r","u","i","t","s">>>>,
     <<"full", <<"f","u","l","l">>>>,
     <<"full fat", <<"f","u","l","l"," ","f","a","t">>>>,
     <<"g", <<"g">>>>,
     <<"gram", <<"g","r","a","m">>>>,
     <<"grocery", <<"g","r","o","c","e","r","y">>>>,
     <<"head", <<"h","e","a","d">>>>,
     <<"health", <<"h","e","a","l","t","h">>>>,
     <<"heavy cream", <<"h","e","a","v","y"," ","c","r","e","a","m">>>>,
     <<"household", <<"h","o","u","s","e","h","o","l","d">>>>,
     <<"ice cream", <<"i","c","e"," ","c","r","e","a","m">>>>,
     <<"jar", <<"j","a","r">>>>,
     <<"juhayna", <<"j","u","h","a","y","n","a">>>>,
     <<"kg", <<"k","g">>>>,
     <<"l", <<"l">>>>,
     <<"lb", <<"l","b">>>>,
     <<"liter", <<"l","i","t","e","r">>>>,
     <<"local", <<"l","o","c","a","l">>>>,
     <<"lotion", <<"l","o","t","i","o","n">>>>,
     <<"low", <<"l","o","w">>>>,
     <<"low fat", <<"l","o","w"," ","f","a","t">>>>,
     <<"meal", <<"m","e","a","l">>>>,
     <<"meat", <<"m","e","a","t">>>>,
     <<"milk", <<"m","i","l","k">>>>,
     <<"milkshake", <<"m","i","l","k","s","h","a","k","e">>>>,
     <<"ml", <<"m","l">>>>,
     <<"natural", <<"n","a","t","u","r","a","l">>>>,
     <<"oat milk", <<"o","a","t"," ","m","i","l","k">>>>,
     <<"organic", <<"o","r","g","a","n","i","c">>>>,
     <<"ounce", <<"o","u","n","c","e">>>>,
     <<"oz", <<"o","z">>>>,
     <<"pack", <<"p","a","c","k">>>>,
     <<"pantry", <<"p","a","n","t","r","y">>>>,
     <<"pepsi", <<"p","e","p","s","i">>>>,
     <<"per", <<"p","e","r">>>>,
     <<"personal care", <<"p","e","r","s","o","n","a","l"," ","c","a","r","e">>>>,
     <<"pet", <<"p","e","t">>>>,
     <<"pharmacy", <<"p","h","a","r","m","a","c","y">>>>,
     <<"piece", <<"p","i","e","c","e">>>>,
     <<"poultry", <<"p","o","u","l","t","r","y">>>>,
     <<"pound", <<"p","o","u","n","d">>>>,
     <<"produce", <<"p","r","o","d","u","c","e">>>>,
     <<"rash cream", <<"r","a","s","h"," ","c","r","e","a","m">>>>,
     <<"refreshing", <<"r","e","f","r","e","s","h","i","n","g">>>>,
     <<"rice milk", <<"r","i","c","e"," ","m","i","l","k">>>>,
     <<"seafood", <<"s","e","a","f","o","o","d">>>>,
     <<"shampoo", <<"s","h","a","m","p","o","o">>>>,
     <<"shaving cream", <<"s","h","a","v","i","n","g"," ","c","r","e","a","m">>>>,
     <<"skim", <<"s","k","i","m">>>>,
     <<"snacks", <<"s","n","a","c","k","s">>>>,
     <<"soap", <<"s","o","a","p">>>>,
     <<"soda", <<"s","o","d","a">>>>,
     <<"sour cream", <<"s","o","u","r"," ","c","r","e","a","m">>>>,
     <<"soy milk", <<"s","o","y"," ","m","i","l","k">>>>,
     <<"still", <<"s","t","i","l","l">>>>,
     <<"vegetables", <<"v","e","g","e","t","a","b","l","e","s">>>>,
     <<"whipped cream", <<"w","h","i","p","p","e","d"," ","c","r","e","a","m">>>>,
     <<"whole", <<"w","h","o","l","e">>>> >>

\* literal |-> characters
Lookup(strings) == [literal \in {strings[i][1] : i \in DOMAIN strings} |-> strings[CHOOSE i \in DOMAIN strings : strings[i][1] = literal][2]]

ClassifierText == Lookup(ClassifierStrings)

\* _build_category_keywords: <<category, keyword, weight in tenths>> in the
\* order of the table.  The entries kept are those that contain, or lie in,
\* a word of a text of the model; every other entry adds nothing to a score
\* of these texts.
category_keywords ==
  << <<"vegetables", "fresh", 6>>, <<"fruits", "fresh", 6>>, <<"meat", "fresh", 6>>,
     <<"dairy", "milk", 10>>, <<"dairy", "cream", 8>>, <<"dairy", "sour cream", 10>>,
     <<"dairy", "cream cheese", 10>>, <<"dairy", "whipped cream", 10>>, <<"dairy", "heavy cream", 10>>,
     <<"dairy", "almond milk", 9>>, <<"dairy", "soy milk", 9>>, <<"dairy", "oat milk", 9>>,
     <<"dairy", "coconut milk", 8>>, <<"dairy", "rice milk", 9>>, <<"dairy", "cashew milk", 9>>,
     <<"dairy", "dairy", 10>>, <<"dairy", "full fat", 6>>, <<"dairy", "low fat", 6>>,
     <<"bakery", "fresh", 6>>, <<"beverages", "soda", 10>>, <<"beverages", "pepsi", 10>>,
     <<"beverages", "milkshake", 10>>, <<"beverages", "drink", 8>>, <<"beverages", "refreshing", 6>>,
     <<"beverages", "ml", 4>>, <<"pantry", "baking soda", 10>>, <<"frozen", "ice cream", 10>>,
     <<"household", "soap", 8>>, <<"personal-care", "soap", 7>>, <<"personal-care", "cream", 7>>,
     <<"personal-care", "shaving cream", 10>>, <<"baby-care", "baby milk", 10>>, <<"baby-care", "baby soap", 10>>,
     <<"baby-care", "rash cream", 10>>, <<"health", "cream", 7>> >>

\* _build_brand_categories: <<brand, category>> in the order of the table
\* (the brands kept include every brand that contains, or lies in, a brand
\* of the model)
brand_categories ==
  << <<"almarai", "dairy">>, <<"juhayna", "dairy">>, <<"pepsi", "beverages">>, <<"fresh", "beverages">> >>

\* the patterns of the tables: \d+\s*unit, \d+\s*unit\b, first\s+second and
\* a literal
Unit(unit) == [kind |-> "unit", a |-> unit, b |-> "", bounded |-> FALSE]

UnitB(unit) == [kind |-> "unit", a |-> unit, b |-> "", bounded |-> TRUE]

Gap(first, second) == [kind |-> "gap", a |-> first, b |-> second, bounded |-> FALSE]

Lit(word) == [kind |-> "lit", a |-> word, b |-> "", bounded |-> FALSE]

\* _build_unit_patterns: <<category, patterns>> in the order of the table
unit_patterns ==
  << <<"meat", <<Unit("kg"), UnitB("g"), Unit("lb"), Unit("oz"), Gap("per", "kg"), Gap("per", "lb"), Lit("frozen"), Lit("fresh")>>>>,
     <<"vegetables", <<Unit("kg"), UnitB("g"), Lit("bunch"), Lit("head"), Lit("piece"), Lit("organic"), Lit("fresh"), Lit("local")>>>>,
     <<"dairy", <<Unit("ml"), UnitB("l"), Unit("oz"), Gap("low", "fat"), Gap("full", "fat"), Lit("skim"), Lit("whole"), Lit("dozen")>>>>,
     <<"beverages", <<Unit("ml"), UnitB("l"), Unit("oz"), Lit("bottle"), Lit("can"), Lit("pack"), Lit("case"), Lit("carbonated"), Lit("still")>>>>,
     <<"pantry", <<UnitB("g"), Unit("kg"), Unit("oz"), Unit("lb"), Lit("jar"), Lit("bottle"), Lit("can"), Lit("pack"), Lit("bag")>>>> >>

\* _build_exclusion_patterns: category |-> literals
exclusion_patterns ==
  "meat" :> {"soap", "shampoo", "detergent", "cleaner"} @@
  "beverages" :> {"soap", "shampoo", "lotion", "cream"} @@
  "personal-care" :> {"food", "drink", "eat", "meal"}

\* category_mappings of _classify_by_store_category, in the order of the table
category_mappings ==
  << <<"dairy", "dairy">>, <<"meat", "meat">>, <<"poultry", "meat">>,
     <<"seafood", "meat">>, <<"produce", "vegetables">>, <<"vegetables", "vegetables">>,
     <<"fruits", "fruits">>, <<"bakery", "bakery">>, <<"bread", "bakery">>,
     <<"beverages", "beverages">>, <<"drinks", "beverages">>, <<"pantry", "pantry">>,
     <<"grocery", "pantry">>, <<"snacks", "snacks">>, <<"frozen", "frozen">>,
     <<"household", "household">>, <<"cleaning", "household">>, <<"personal care", "personal-care">>,
     <<"beauty", "personal-care">>, <<"baby", "baby-care">>, <<"health", "health">>,
     <<"pharmacy", "health">>, <<"pet", "pet">> >>

\* the tests of _classify_by_context in the order of the method, with the
\* amounts (in tenths) each adds: a search of \d+\s*(unit|...) or of
\* \b(word|...)\b
context_rules ==
  << [kind |-> "units", alts |-> {"ml", "l", "liter"}, adds |-> <<<<"beverages", 3>>, <<"dairy", 2>>>>],
     [kind |-> "units", alts |-> {"kg", "g", "gram", "lb", "pound"}, adds |-> <<<<"meat", 3>>, <<"vegetables", 2>>, <<"pantry", 2>>>>],
     [kind |-> "units", alts |-> {"oz", "ounce"}, adds |-> <<<<"beverages", 2>>, <<"personal-care", 2>>>>],
     [kind |-> "words", alts |-> {"bottle", "jar", "can", "pack", "bag"}, adds |-> <<<<"pantry", 2>>, <<"beverages", 1>>>>],
     [kind |-> "words", alts |-> {"fresh", "organic", "natural", "farm"}, adds |-> <<<<"vegetables", 3>>, <<"fruits", 3>>, <<"meat", 2>>>>],
     [kind |-> "words", alts |-> {"frozen", "canned", "dried", "baked"}, adds |-> <<<<"frozen", 4>>, <<"pantry", 2>>>>] >>

\* greatest common divisor of two naturals, not both 0
RECURSIVE Gcd(_, _)
Gcd(a, b) == IF b = 0 THEN a ELSE Gcd(b, a % b)

\* a score or a confidence: the fraction n / d in lowest terms
Frac(n, d) == <<n \div Gcd(n, d), d \div Gcd(n, d)>>

FracAdd(x, y) == Frac(x[1] * y[2] + y[1] * x[2], x[2] * y[2])

FracMul(x, y) == Frac(x[1] * y[1], x[2] * y[2])

\* x / y for y > 0
FracDiv(x, y) == Frac(x[1] * y[2], x[2] * y[1])

FracGt(x, y) == x[1] * y[2] > y[1] * x[2]

\* min(x, 1.0)
FracMin1(x) == IF FracGt(x, <<1, 1>>) THEN <<1, 1>> ELSE x

\* str.lower() and str.strip()
lower_text(s) == [i \in DOMAIN s |-> lower(s[i])]

RECURSIVE strip(_)
strip(s) ==
  IF s = <<>> THEN s
  ELSE IF IsSpace(s[1]) THEN strip(Tail(s))
  ELSE IF IsSpace(s[Len(s)]) THEN strip(SubSeq(s, 1, Len(s) - 1))
  ELSE s

\* s[i:i+len(w)] == w
StartsAt(s, i, w) == i + Len(w) - 1 <= Len(s) /\ SubSeq(s, i, i + Len(w) - 1) = w

\* the test "sub in s" on strings
Contains(s, sub) == \E i \in 1..(Len(s) + 1) : StartsAt(s, i, sub)

\* re.findall(r'\b\w+\b', s): the maximal runs of \w characters
IsRun(s, i, j) ==
  /\ \A k \in i..j : IsWord(s[k])
  /\ i > 1 => ~IsWord(s[i - 1])
  /\ j < Len(s) => ~IsWord(s[j + 1])

Words(s) == {SubSeq(s, run_[1], run_[2]) : run_ \in {pair \in (DOMAIN s) \X (DOMAIN s) : pair[1] <= pair[2] /\ IsRun(s, pair[1], pair[2])}}

\* the first position from i that holds no digit (\d+ is greedy), no space
RECURSIVE SkipDigits(_, _)
SkipDigits(s, i) == IF i <= Len(s) /\ s[i] \in DigitChars THEN SkipDigits(s, i + 1) ELSE i

RECURSIVE SkipSpaces(_, _)
SkipSpaces(s, i) == IF i <= Len(s) /\ IsSpace(s[i]) THEN SkipSpaces(s, i + 1) ELSE i

\* \b before position i: exactly one of the characters around it is a \w
AtBoundary(s, i) == (i > 1 /\ IsWord(s[i - 1])) # (i <= Len(s) /\ IsWord(s[i]))

\* the position after the match of pattern p that starts at i, 0 when there
\* is none.  Every unit and every second word starts with a letter, so giving
\* back digits or spaces cannot turn a failure into a match.
MatchChars(p, a, b, s, i) ==
  CASE p.kind = "lit" ->
         IF StartsAt(s, i, a) THEN i + Len(a) ELSE 0
    [] p.kind = "gap" ->
         LET j == SkipSpaces(s, i + Len(a))
         IN IF StartsAt(s, i, a) /\ j > i + Len(a) /\ StartsAt(s, j, b)
            THEN j + Len(b) ELSE 0
    [] p.kind = "unit" ->
         LET k == SkipSpaces(s, SkipDigits(s, i))
         IN IF /\ i <= Len(s) /\ s[i] \in DigitChars
               /\ StartsAt(s, k, a)
               /\ p.bounded => AtBoundary(s, k + Len(a))
            THEN k + Len(a) ELSE 0

\* the pattern with the characters of its literals
MatchEnd(p, s, i) == MatchChars(p, ClassifierText[p.a], ClassifierText[p.b], s, i)

\* len(re.findall(pattern, s)): the matches from left to right, each search
\* starting where the last match ended
RECURSIVE FindAllFrom(_, _, _)
FindAllAfter(p, s, starts) ==
  IF starts = {} THEN 0 ELSE 1 + FindAllFrom(p, s, MatchEnd(p, s, Min(starts)))

FindAllFrom(p, s, i) == FindAllAfter(p, s, {k \in i..Len(s) : MatchEnd(p, s, k) > 0})

\* re.search(pattern, s) finds a match
Search(p, s) == \E i \in DOMAIN s : MatchEnd(p, s, i) > 0

\* the length of the common block of a from i and b from j
RECURSIVE BlockLen(_, _, _, _, _, _)
BlockLen(a, b, i, j, ahi, bhi) ==
  IF i > ahi \/ j > bhi \/ a[i] # b[j] THEN 0
  ELSE 1 + BlockLen(a, b, i + 1, j + 1, ahi, bhi)

\* of the blocks of the best size the one that starts earliest in a, of
\* those the one that starts earliest in b, as <<i, j, size>>
FirstIn(starts, i) == <<i, Min({p[2] : p \in {q \in starts : q[1] = i}})>>

FirstBlock(size, best) == FirstIn({p \in DOMAIN size : size[p] = best}, Min({p[1] : p \in {q \in DOMAIN size : size[q] = best}})) \o <<best>>

\* difflib.SequenceMatcher.find_longest_match on a[alo..ahi] and b[blo..bhi]
find_longest_match(a, b, alo, ahi, blo, bhi) ==
  LET size == [p \in (alo..ahi) \X (blo..bhi) |-> BlockLen(a, b, p[1], p[2], ahi, bhi)]
  IN FirstBlock(size, Max({size[p] : p \in DOMAIN size}))

\* the number of matched characters of get_matching_blocks: the longest
\* block, then the same to its left and to its right
RECURSIVE MatchedChars(_, _, _, _, _, _)
MatchedAround(a, b, alo, ahi, blo, bhi, m) ==
  IF m[3] = 0 THEN 0
  ELSE m[3] + MatchedChars(a, b, alo, m[1] - 1, blo, m[2] - 1)
            + MatchedChars(a, b, m[1] + m[3], ahi, m[2] + m[3], bhi)

MatchedChars(a, b, alo, ahi, blo, bhi) ==
  IF alo > ahi \/ blo > bhi THEN 0
  ELSE MatchedAround(a, b, alo, ahi, blo, bhi, find_longest_match(a, b, alo, ahi, blo, bhi))

\* SequenceMatcher(None, a, b).ratio() = 2 * matches / (len(a) + len(b))
ratio(a, b) ==
  IF Len(a) + Len(b) = 0 THEN <<1, 1>>
  ELSE Frac(2 * MatchedChars(a, b, 1, Len(a), 1, Len(b)), Len(a) + Len(b))

\* scores[category] += amount on a defaultdict(float): a dict keeps its keys
\* in the order of their first use
AddScore(scores, category, amount) ==
  IF \E i \in DOMAIN scores : scores[i][1] = category
  THEN [i \in DOMAIN scores |->
          IF scores[i][1] = category
          THEN <<category, FracAdd(scores[i][2], amount)>> ELSE scores[i]]
  ELSE Append(scores, <<category, amount>>)

\* the position of max(scores.items(), key=lambda x: x[1]): the first of the
\* items with the largest score
BestIndex(scores) == Min({i \in DOMAIN scores : \A j \in DOMAIN scores : FracGeq(scores[i][2], scores[j][2])})

\* sorted(scores.items(), key=lambda x: x[1], reverse=True)[1]: the sort is
\* stable, so the second item is the best of the items without the first best
Without(scores, k) == [i \in 1..(Len(scores) - 1) |-> IF i < k THEN scores[i] ELSE scores[i + 1]]

SecondBest(scores) == Without(scores, BestIndex(scores))[BestIndex(Without(scores, BestIndex(scores)))]

\* the answer of a method of the classifier
Answer(category, confidence, via) == [category |-> category, confidence |-> confidence, via |-> via]

Unknown(via) == Answer("unknown", <<0, 1>>, via)

\* max() of a set of ratios
MaxFrac(fractions) == CHOOSE x \in fractions : \A y \in fractions : FracGeq(x, y)

\* the third branch of the keyword loop once the best ratio is known
partial_score(weight, similarity) ==
  IF FracGt(similarity, <<7, 10>>)
  THEN FracMul(FracMul(Frac(weight, 10), similarity), <<6, 10>>)
  ELSE <<0, 1>>

\* the three branches of the keyword loop for one keyword: its weight for
\* the phrase in the text, 0.8 of it for a word equal to it, and for a word
\* inside it or around it 0.6 of it times the best ratio of the keyword to
\* the words longer than 2 characters, when that ratio is above 0.7.  (max()
\* of no word raises ValueError; every text of the model has a longer word.)
keyword_score(combined, words, keyword, weight) ==
  IF Contains(combined, keyword) THEN Frac(weight, 10)
  ELSE IF keyword \in words THEN Frac(weight * 8, 100)
  ELSE IF \E w \in words : Contains(w, keyword) \/ Contains(keyword, w)
       THEN partial_score(weight, MaxFrac({ratio(keyword, w) : w \in {v \in words : Len(v) > 2}}))
       ELSE <<0, 1>>

\* the entries of the table that add to a score of the text
KeywordHits(combined, words) == {i \in DOMAIN category_keywords : keyword_score(combined, words, ClassifierText[category_keywords[i][2]], category_keywords[i][3])[1] # 0}

\* category_scores[category] after the loop over the table: the sum of what
\* the entries of the category add
RECURSIVE SumScores(_, _, _)
SumScores(combined, words, hits) ==
  IF hits = {} THEN <<0, 1>>
  ELSE FracAdd(keyword_score(combined, words, ClassifierText[category_keywords[Min(hits)][2]], category_keywords[Min(hits)][3]),
               SumScores(combined, words, hits \ {Min(hits)}))

CategoryScore(combined, words, hits, i) == <<category_keywords[i][1], SumScores(combined, words, {j \in hits : category_keywords[j][1] = category_keywords[i][1]})>>

\* the first entry of every category that adds to a score: the dict keeps
\* the categories in the order of these
FirstHits(hits) == {i \in hits : \A j \in hits : category_keywords[j][1] = category_keywords[i][1] => i <= j}

\* the items of category_scores after the loop of _classify_by_keywords
KeywordScores(combined, words, hits, firsts) == [k \in 1..Cardinality(firsts) |-> CategoryScore(combined, words, hits, CHOOSE i \in firsts : Cardinality({j \in firsts : j <= i}) = k)]

\* every score divided by the largest one (and capped at 1.0 by the pattern
\* method)
NormalizedBy(scores, max_score) == [i \in DOMAIN scores |-> <<scores[i][1], FracMin1(FracDiv(scores[i][2], max_score))>>]

Normalized(scores) == IF scores = <<>> THEN scores ELSE NormalizedBy(scores, scores[BestIndex(scores)][2])

\* the best item of the scores as the answer of a method, unknown when no
\* category has a score
BestAnswer(scores, via) ==
  IF scores = <<>> THEN Unknown(via)
  ELSE Answer(scores[BestIndex(scores)][1], scores[BestIndex(scores)][2], via)

\* CategoryClassifier._classify_by_keywords
classify_by_keywords(combined) == BestAnswer(Normalized(KeywordScores(combined, Words(combined), KeywordHits(combined, Words(combined)), FirstHits(KeywordHits(combined, Words(combined))))), "keywords")

\* the score of one category of unit_patterns: 0.5 for every match of every
\* pattern that matches
PatternMatches(patterns, combined) == {match \in (DOMAIN patterns) \X (DOMAIN combined) : match[2] <= FindAllFrom(patterns[match[1]], combined, 1)}

PatternScore(patterns, combined) == Frac(5 * Cardinality(PatternMatches(patterns, combined)), 10)

\* the categories of unit_patterns with a match, in the order of the table
PatternScores(combined) ==
  SelectSeq([i \in DOMAIN unit_patterns |-> <<unit_patterns[i][1], PatternScore(unit_patterns[i][2], combined)>>],
            LAMBDA item : item[2][1] # 0)

\* CategoryClassifier._classify_by_patterns
classify_by_patterns(combined) == BestAnswer(Normalized(PatternScores(combined)), "patterns")

\* the test of one rule of _classify_by_context
RuleFires(rule, combined) ==
  IF rule.kind = "units" THEN \E unit \in rule.alts : Search(Unit(unit), combined)
  ELSE \E word \in rule.alts : ClassifierText[word] \in Words(combined)

RECURSIVE AddScores(_, _, _)
AddScores(scores, adds, i) ==
  IF i > Len(adds) THEN scores
  ELSE AddScores(AddScore(scores, adds[i][1], Frac(adds[i][2], 10)), adds, i + 1)

RECURSIVE ContextScores(_, _, _)
ContextScores(combined, i, scores) ==
  IF i > Len(context_rules) THEN scores
  ELSE ContextScores(combined, i + 1,
         IF RuleFires(context_rules[i], combined)
         THEN AddScores(scores, context_rules[i].adds, 1) ELSE scores)

\* CategoryClassifier._classify_by_context
classify_by_context(combined) == BestAnswer(ContextScores(combined, 1, <<>>), "context")

\* CategoryClassifier._is_excluded
is_excluded(combined, category) ==
  /\ category \in DOMAIN exclusion_patterns
  /\ \E word \in exclusion_patterns[category] : Search(Lit(word), combined)

\* the brands of the table that hold, or lie in, the brand and are more than
\* 0.8 similar to it
PartlyBrand(brand, known_brand) ==
  /\ Contains(brand, known_brand) \/ Contains(known_brand, brand)
  /\ FracGt(ratio(brand, known_brand), <<8, 10>>)

PartialBrands(brand) == {i \in DOMAIN brand_categories : PartlyBrand(brand, ClassifierText[brand_categories[i][1]])}

\* the answer for a brand of the table: 0.9, and for the first brand of the
\* table that is partly the brand 0.8 times their similarity
brand_answer(brand, direct, partial) ==
  IF direct # {} THEN Answer(brand_categories[Max(direct)][2], <<9, 10>>, "brand")
  ELSE IF partial # {}
       THEN Answer(brand_categories[Min(partial)][2],
                   FracMul(<<8, 10>>, ratio(brand, ClassifierText[brand_categories[Min(partial)][1]])),
                   "brand")
       ELSE Unknown("brand")

\* CategoryClassifier._classify_by_brand, after and with brand.strip().lower()
classify_stripped_brand(brand) == brand_answer(brand, {i \in DOMAIN brand_categories : ClassifierText[brand_categories[i][1]] = brand}, PartialBrands(brand))

classify_by_brand(brand) == classify_stripped_brand(lower_text(strip(brand)))

\* the answer for a name of the table: 0.8, and for the first name of the
\* table that holds, or lies in, the store's category 0.7
store_category_answer(direct, partial) ==
  IF direct # {} THEN Answer(category_mappings[Max(direct)][2], <<8, 10>>, "store_category")
  ELSE IF partial # {} THEN Answer(category_mappings[Min(partial)][2], <<7, 10>>, "store_category")
  ELSE Unknown("store_category")

\* the names of the table that hold, or lie in, the store's category
PartlyCategory(store_category, category_name) == Contains(store_category, category_name) \/ Contains(category_name, store_category)

PartialMappings(store_category) == {i \in DOMAIN category_mappings : PartlyCategory(store_category, ClassifierText[category_mappings[i][1]])}

\* CategoryClassifier._classify_by_store_category, after and with
\* store_category.strip().lower()
classify_stripped_category(store_category) == store_category_answer({i \in DOMAIN category_mappings : ClassifierText[category_mappings[i][1]] = store_category}, PartialMappings(store_category))

classify_by_store_category(store_category) == classify_stripped_category(lower_text(strip(store_category)))

\* the candidates of classify_product: the answers of the keyword, pattern,
\* context and brand methods that are above 0.3, weighted 0.4, 0.3, 0.2, 0.1
Weighted(scores, answer, weight) ==
  IF FracGt(answer.confidence, <<3, 10>>)
  THEN AddScore(scores, answer.category, FracMul(answer.confidence, Frac(weight, 10)))
  ELSE scores

\* ' '.join(text_parts) of the lowered name, description, brand and store
\* category that are given
combined_text(name, description, brand, store_category) ==
  join(SelectSeq(<<lower_text(name), lower_text(description), lower_text(brand), lower_text(store_category)>>,
                 LAMBDA part : part # <<>>))

\* the candidates of classify_product in the order they are added; the
\* brand method is asked only for a brand that is given
candidates_of(combined, brand) ==
  LET three == Weighted(Weighted(Weighted(<<>>, classify_by_keywords(combined), 4),
                                 classify_by_patterns(combined), 3),
                        classify_by_context(combined), 2)
  IN IF brand # <<>> THEN Weighted(three, classify_by_brand(lower_text(brand)), 1) ELSE three

\* the return statements of classify_product in their order; "via" names
\* the one taken
decide(name, brand, store_category, combined, by_brand, by_store, candidates) ==
  IF name = <<>> THEN Unknown("no_name")
  ELSE IF brand # <<>> /\ FracGt(by_brand.confidence, <<8, 10>>) THEN by_brand
  ELSE IF store_category # <<>> /\ FracGt(by_store.confidence, <<7, 10>>) THEN by_store
  ELSE IF candidates = <<>> THEN Unknown("no_candidates")
  ELSE IF is_excluded(combined, candidates[BestIndex(candidates)][1])
       THEN IF Len(candidates) > 1
            THEN Answer(SecondBest(candidates)[1], SecondBest(candidates)[2], "second_best")
            ELSE Unknown("excluded")
  ELSE Answer(candidates[BestIndex(candidates)][1], FracMin1(candidates[BestIndex(candidates)][2]), "weighted")

\* classify_product once combined_text is known; the arguments are character
\* sequences, <<>> for one that is None or empty
classify_combined(name, brand, store_category, combined) ==
  decide(name, brand, store_category, combined,
         classify_by_brand(lower_text(brand)),
         classify_by_store_category(lower_text(store_category)),
         candidates_of(combined, brand))

\* CategoryClassifier.classify_product(name, description, brand, store_category)
classify_text(name, description, brand, store_category) == classify_combined(name, brand, store_category, combined_text(name, description, brand, store_category))

\* classify_product(name, description, brand, store_category) on literals
classify_product(name, description, brand, store_category) == classify_text(ClassifierText[name], ClassifierText[description], ClassifierText[brand], ClassifierText[store_category])

(***************************************************************************)
(* Direct calls of the classifier                                          *)
(***************************************************************************)
\* the calls made in a row with the same arguments that the model follows
MaxCalls == 2

ClassifierNames == {"Almarai Full Fat Milk 1L", "", "Milk", "Cream Soda 330ml", "Gift Card", "Pepsi Soap 1kg"}

\* "" stands for an argument that is not given
Descriptions == {"", "Fresh"}

ClassifierBrands == {"", "Almarai", "Almarais", "Pepsi", "Acme"}

StoreCategories == {"", "Dairy", "Drinks", "Dairy Aisle"}

ClassifierInputs == ClassifierNames \X Descriptions \X ClassifierBrands \X StoreCategories

\* the answers of the module-level classifier; its methods read the tables
\* __init__ built and assign no attribute
Classified(inputs) == [classified |-> [input \in inputs |-> classify_product(input[1], input[2], input[3], input[4])]]

ClassifyInit ==
  /\ db = EmptyDb
  /\ run = [r \in Runs |-> IdleRun]
  /\ result = NoResult
  /\ now = 0
  /\ row_order = "asc"
  /\ listings = [assign |-> OneRun({}), repeat |-> TRUE, records |-> {}]
  /\ text = Classified(ClassifierInputs)
  /\ call = NoCall
  /\ budget = [records |-> 0, faults |-> 0]
  /\ scraper = NoScraper
  /\ tasks = NoTasks

\* classify_product(name, description, brand, store_category); "first" is
\* the answer of the first of the calls made in a row with these arguments
ClassifyProduct(name, description, brand, store_category) ==
  LET input == <<name, description, brand, store_category>>
      again == call.op = "classify_product" /\ call.input = input
  IN /\ again => call.calls < MaxCalls
     /\ call' = [ op     |-> "classify_product",
                  input  |-> input,
                  output |-> text.classified[input],
                  calls  |-> IF again THEN call.calls + 1 ELSE 1,
                  first  |-> IF again THEN call.first ELSE text.classified[input] ]
     /\ UNCHANGED <<db, run, result, now, row_order, listings, text, tasks, budget, scraper>>

ClassifyNext == \E input \in ClassifierInputs : ClassifyProduct(input[1], input[2], input[3], input[4])

ClassifySpec == ClassifyInit /\ [][ClassifyNext]_vars

(***************************************************************************)
(* Properties of the price pipeline                                        *)
(***************************************************************************)
\* no run is inside its loop: every row is committed or gone
BetweenRuns == \A r \in Runs : run[r].pc # "loop"

\* the record the last turn of the loop handled
Record == result.record[1]

WrotePrice == Len(db.prices) > result.n_prices

WroteHistory == Len(db.history) > result.n_history

\* the rows of a table that belong to a (productId, storeId) pair
RowsOf(rows, pair) ==
  {i \in DOMAIN rows : rows[i].product_id = pair[1] /\ rows[i].store_id = pair[2]}

\* the pairs that have at least one PriceRecord
Pairs == {<<db.prices[i].product_id, db.prices[i].store_id>> : i \in DOMAIN db.prices}

\* among the PriceRecords S, those with the greatest observation timestamp
Latest(S) ==
  {i \in S : \A j \in S : db.prices[i].scraped_at >= db.prices[j].scraped_at}

\* the PriceRecords the matched Product's pair held before the last turn
HeldBefore ==
  {i \in RowsOf(db.prices, <<result.product_id, db.products[result.product_id].store_id>>) :
     i <= result.n_prices}

\* the four conditions of the gate, as the specification words them
StatedGate(current, scraped_product) ==
  \/ Hours(now - current.scraped_at) > 24
  \/ Abs(scraped_product.price - current.price) * 100 >= 5 * current.price
  \/ scraped_product.is_available # current.is_available
  \/ scraped_product.is_discounted # current.is_discounted

\* C1 as stated: when the matched Product already has a current PriceRecord
\* for the store, a PriceRecord is written if and only if the current record
\* is older than 24 hours, or the price moved by at least 5% of the current
\* price, or the availability flag differs, or the discount flag differs;
\* otherwise neither a PriceRecord nor a PriceHistory entry is written.
PriceGateAsStated ==
  (result.action = "updated" /\ HeldBefore # {}) =>
     \A current \in Latest(HeldBefore) :
        /\ WrotePrice <=> StatedGate(db.prices[current], Record)
        /\ ~StatedGate(db.prices[current], Record) => ~WroteHistory

\* C1 for a current PriceRecord that the query of the run returns (a
\* committed row, or a row of the run that a flush has sent): the gate is
\* as stated, and a history entry is written exactly with the PriceRecord
PriceGateOnStoredRecord ==
  (result.action = "updated" /\ result.current # NoRow) =>
     /\ WrotePrice <=> StatedGate(db.prices[result.current], Record)
     /\ WroteHistory <=> WrotePrice

PriceGateOnStoredRecordWitness ==
  /\ result.action = "updated"
  /\ result.current # NoRow
  /\ db.prices[result.current].price = 20000
  /\ Record.price = 20500
  /\ ~WrotePrice

\* C2 as stated: between runs, every pair with at least one PriceRecord has
\* exactly one PriceHistory entry fewer than it has PriceRecords.
HistoryCountAsStated ==
  BetweenRuns =>
     \A pair \in Pairs :
        Cardinality(RowsOf(db.history, pair)) =
           Cardinality(RowsOf(db.prices, pair)) - 1

\* C2, the content of an entry: a PriceHistory entry that is written holds
\* the price, the flags and the timestamp of the record it replaces
HistoryHoldsOldRecord ==
  (result.action = "updated" /\ WroteHistory) =>
     LET entry == db.history[Len(db.history)]
         old   == db.prices[result.current]
     IN /\ result.current # NoRow
        /\ Len(db.history) = result.n_history + 1
        /\ entry.product_id = old.product_id
        /\ entry.store_id = old.store_id
        /\ entry.price = old.price
        /\ entry.original_price = old.original_price
        /\ entry.is_available = old.is_available
        /\ entry.is_discounted = old.is_discounted
        /\ entry.recorded_at = old.scraped_at

\* C3: the entry written for old record and new record has changeAmount =
\* new price - old price, changePercentage = changeAmount / old price * 100,
\* and changeType 'unavailable' when the new record is unavailable, else
\* 'new' when the old record was unavailable, else 'increase' / 'decrease'
\* by the sign of the amount when it is at least 1% of the old price, else
\* 'stable'.
ChangeTypeDerivation ==
  (result.action = "updated" /\ WroteHistory) =>
     LET entry  == db.history[Len(db.history)]
         old    == db.prices[result.current]
         amount == Record.price - old.price
     IN /\ entry.change_amount = amount
        /\ entry.change_percentage = <<amount * 100, old.price>>
        /\ entry.change_type =
             IF ~Record.is_available THEN "unavailable"
             ELSE IF ~old.is_available THEN "new"
             ELSE IF Abs(amount) * 100 >= old.price
                  THEN IF amount > 0 THEN "increase" ELSE "decrease"
                  ELSE "stable"

\* an unavailable product reappears at another price: the entry says 'new'
ChangeTypeWitness ==
  /\ result.action = "updated"
  /\ WroteHistory
  /\ db.history[Len(db.history)].change_type = "new"
  /\ db.history[Len(db.history)].change_amount # 0

\* the last turn handled the first record of its run, and the last record
\* the preceding, committed run of the same store had handled was the same
\* record
SecondPass(r) ==
  /\ result.run = r
  /\ result.action \in {"created", "updated"}
  /\ Len(run[r].queue) + 1 = Len(remove_duplicates(run[r].input))
  /\ run[r].prev.record = result.record
  /\ run[r].prev.store_id = run[r].store_id

\* C4 as stated: a record processed a second time within 24 hours of the
\* first pass, nothing else having touched the catalog, creates no Product,
\* no PriceRecord and no PriceHistory entry.
SecondPassAsStated ==
  \A r \in Runs :
     (SecondPass(r) /\ Hours(now - run[r].prev.time) <= 24) =>
        /\ result.action = "updated"
        /\ Len(db.products) = result.n_products
        /\ ~WrotePrice
        /\ ~WroteHistory

\* C5 as stated: between runs, every pair has one PriceRecord whose
\* observation timestamp is greater than that of all its other records.
OneCurrentAsStated ==
  BetweenRuns =>
     \A pair \in Pairs : Cardinality(Latest(RowsOf(db.prices, pair))) <= 1

(***************************************************************************)
(* Properties of the pure helpers                                          *)
(***************************************************************************)
\* the composite key of the specification: normalised name and price
\* rounded to 2 decimals
CompositeKey(product) == <<text.normalized[product.name], round2(product.price)>>

\* the positions of a list whose key no earlier position carries
FirstOfKey(products) ==
  {i \in DOMAIN products :
     \A j \in 1..(i - 1) : CompositeKey(products[j]) # CompositeKey(products[i])}

\* the k-th smallest element of a set of positions
Nth(S, k) == CHOOSE i \in S : Cardinality({j \in S : j < i}) = k - 1

\* C6: deduplication returns exactly the records that are the first of
\* their composite key, in input order; duplicates_removed is input length
\* minus output length; of [Tomato 1kg @20, tomato 1kg @20, Tomato 1kg @21]
\* exactly 2 records survive.
DedupKeepsFirst ==
  call.op = "remove_duplicates" =>
     LET products == call.input
         unique   == call.output.unique_products
         first    == FirstOfKey(products)
     IN /\ Len(unique) = Cardinality(first)
        /\ \A k \in 1..Len(unique) : unique[k] = products[Nth(first, k)]
        /\ call.output.duplicates_removed = Len(products) - Len(unique)
        /\ products = <<Kg2000, LowerKg2000, Kg2100>> => unique = <<Kg2000, Kg2100>>

DedupKeepsFirstWitness ==
  /\ call.op = "remove_duplicates"
  /\ call.input = <<Kg2000, LowerKg2000, Kg2100>>
  /\ Len(call.output.unique_products) = 2
  /\ call.output.duplicates_removed = 1

CherryPair == <<"cherry tomatoes 500g", "cherry tomato 500 g">>

TomatoesPair == <<"cherry tomatoes", "beef tomatoes">>

\* C7 as stated: "cherry tomatoes 500g" and "cherry tomato 500 g" have
\* similarity >= 0.8 and match; "cherry tomatoes" and "beef tomatoes" have
\* similarity < 0.8 and do not match.
FuzzyBoundaryAsStated ==
  call.op = "calculate_similarity" =>
     /\ call.input = CherryPair => call.output.matches
     /\ call.input = TomatoesPair => ~call.output.matches

\* C7 amended: the similarity of "cherry tomatoes 500g" and "cherry tomato
\* 500 g" is 1/5 (the token sets {cherry, tomatoes, 500g} and {cherry,
\* tomato, 500} share one of five tokens), that of "cherry tomatoes" and
\* "beef tomatoes" is 1/3; both are < 0.8 and neither pair matches.
FuzzyBoundary ==
  call.op = "calculate_similarity" =>
     /\ call.input = CherryPair =>
          call.output.similarity = <<1, 5>> /\ ~call.output.matches
     /\ call.input = TomatoesPair =>
          call.output.similarity = <<1, 3>> /\ ~call.output.matches

FuzzyBoundaryWitness ==
  /\ call.op = "calculate_similarity"
  /\ call.input = CherryPair
  /\ ~call.output.matches

(***************************************************************************)
(* Properties of matching and merging                                      *)
(***************************************************************************)
\* the Product the last turn matched, NoRow when it created one
Chosen == IF result.action = "updated" THEN result.product_id ELSE NoRow

\* the Products of the store the last turn had to choose from
Candidates ==
  {i \in 1..result.n_products :
     /\ db.products[i].txn \in {0, result.run}
     /\ db.products[i].store_id = run[result.run].store_id}

\* a candidate as it was before the last turn (the turn changes the
\* Product it matches, and no other)
Former(i) == IF i = Chosen THEN result.before[1] ELSE db.products[i]

\* the candidates that carry the record's externalId
ByExternalId ==
  {i \in Candidates :
     Record.external_id # Empty /\ Former(i).external_id = Record.external_id}

\* the candidates whose normalised name equals the record's
ByNormalizedName ==
  {i \in Candidates :
     text.normalized[Former(i).name] = text.normalized[Record.name]}

\* the candidates whose similarity to the record is at least 0.8
BySimilarity ==
  {i \in Candidates :
     FracGeq(text.similarity[Record.name, Former(i).name], <<8, 10>>)}

\* C8 as stated: a Product with the record's externalId is chosen over any
\* name match; otherwise a Product with the same normalised name is chosen
\* over a merely fuzzy candidate; otherwise a Product with similarity >= 0.8
\* is chosen; otherwise a Product is created.
MatchPriorityAsStated ==
  result.action \in {"created", "updated"} =>
     IF ByExternalId # {} THEN Chosen \in ByExternalId
     ELSE IF ByNormalizedName # {} THEN Chosen \in ByNormalizedName
     ELSE IF BySimilarity # {} THEN Chosen \in BySimilarity
     ELSE result.action = "created"

\* the value a merged column holds: the Product's, or the record's where
\* the Product had none
Enriched(current, scraped) == IF current = Empty THEN scraped ELSE current

\* C9: after a record is merged into a Product, each of description,
\* image_url, brand, weight, unit and external_id holds the Product's former
\* value when that was populated and the record's value otherwise; name,
\* category and store_id are as before.
NonDestructiveMerge ==
  result.action = "updated" =>
     LET before == result.before[1]
         after  == db.products[result.product_id]
     IN /\ after.description = Enriched(before.description, Record.description)
        /\ after.image_url = Enriched(before.image_url, Record.image_url)
        /\ after.brand = Enriched(before.brand, Record.brand)
        /\ after.weight = IF before.weight = 0 THEN Record.weight_value
                          ELSE before.weight
        /\ after.unit = Enriched(before.unit, Record.pack_unit)
        /\ after.external_id = Enriched(before.external_id, Record.external_id)
        /\ after.name = before.name
        /\ after.category = before.category
        /\ after.store_id = before.store_id

\* a record with other values is merged into a Product whose columns are set
NonDestructiveMergeWitness ==
  /\ result.action = "updated"
  /\ result.before[1].brand # Empty
  /\ Record.brand \notin {Empty, result.before[1].brand}
  /\ Record.name # result.before[1].name
  /\ Record.category \notin {Empty, result.before[1].category}
  /\ db.products[result.product_id].brand = result.before[1].brand

(***************************************************************************)
(* Properties of the transaction                                           *)
(***************************************************************************)
\* no row that run r added and has not committed is left
NothingPending(r) ==
  /\ \A i \in DOMAIN db.products : db.products[i].txn # r
  /\ \A i \in DOMAIN db.prices : db.prices[i].txn # r
  /\ \A i \in DOMAIN db.history : db.history[i].txn # r

ReconciliationFailure(r) == run[r].pc = "done" /\ run[r].infra

\* C11: a run in which the persistence layer failed leaves the catalog as it
\* was before the run, has incremented the failed-scrape counter of its
\* store, and has ended by raising to its caller.
ReconciliationFailureAsStated ==
  \A r \in Runs :
     ReconciliationFailure(r) =>
        LET after == Committed(db, {})
            pre   == run[r].pre
            s     == run[r].store_id
        IN /\ after.products = pre.products
           /\ after.prices = pre.prices
           /\ after.history = pre.history
           /\ after.stores[s].failed_scrapes = pre.stores[s].failed_scrapes + 1
           /\ run[r].exit = "raise"

\* what the code does on that path: everything is rolled back, the store's
\* counters included, and the statistics are returned with one more message
ReconciliationFailureSwallowed ==
  \A r \in Runs :
     ReconciliationFailure(r) =>
        /\ Committed(db, {}) = run[r].pre
        /\ run[r].exit = "return"
        /\ run[r].stats.errors # <<>>

(***************************************************************************)
(* C12  the scrape counters of a store                                     *)
(***************************************************************************)
\* a call of process_scraped_products has reached its commit
Completed(r) == run[r].pc = "done" /\ run[r].outcome = "committed"

\* C12: a run that completes has added exactly 1 to total_scrapes of its
\* store and set last_scraped to the time of the run; it has added exactly 1
\* to failed_scrapes when its error list is not empty, even if other records
\* were stored, and 0 otherwise; in every state
\* 0 <= failed_scrapes <= total_scrapes for every store.
ScrapeCounters ==
  /\ \A r \in Runs :
        Completed(r) =>
           LET after == db.stores[run[r].store_id]
               pre   == run[r].pre.stores[run[r].store_id]
           IN /\ after.total_scrapes = pre.total_scrapes + 1
              /\ after.last_scraped >= run[r].txn_time
              /\ after.last_scraped <= now
              /\ after.last_scraped > pre.last_scraped
              /\ after.failed_scrapes =
                    pre.failed_scrapes + (IF run[r].stats.errors # <<>> THEN 1 ELSE 0)
  /\ \A s \in StoreIds :
        /\ 0 <= db.stores[s].failed_scrapes
        /\ db.stores[s].failed_scrapes <= db.stores[s].total_scrapes

\* a committed run in which one record raised and another was stored has
\* counted as a failed scrape
ScrapeCountersWitness ==
  \E r \in Runs :
     /\ Completed(r)
     /\ run[r].stats.errors # <<>>
     /\ run[r].stats.products_created + run[r].stats.products_updated > 0
     /\ db.stores[run[r].store_id].failed_scrapes =
          run[r].pre.stores[run[r].store_id].failed_scrapes + 1

(***************************************************************************)
(* Properties of the scraper run                                           *)
(***************************************************************************)
\* run_scraping has returned the report of a scrape that did not raise
Reported == scraper.report.returned /\ scraper.pc = "scope"

ScrapeRaised ==
  \E i \in DOMAIN scraper.report.errors : scraper.report.errors[i].kind = "scraping_failed"

\* the records the validation is stated to drop
Dropped(product) == text.blank[product.name] \/ product.price <= 0

\* the record the validation is stated to keep for a record it does not drop
Cleared(product) ==
  IF product.original_price # 0 /\ product.original_price < product.price
  THEN [product EXCEPT !.original_price = 0, !.is_discounted = FALSE]
  ELSE product

Kept(products) == SelectSeq(products, LAMBDA p : ~Dropped(p))

\* C13: every record of a returned report has a non-empty name, a price > 0
\* and an original price that is absent or >= the price; the report holds, in
\* order, every scraped record with a name and a positive price, a record
\* whose original price is below its price with the original price cleared
\* and is_discounted false; every record without a name or with a price <= 0
\* is left out and has an entry in the error list, and nothing is raised.
ReportRecordsValid ==
  scraper.report.returned =>
     LET report == scraper.report
         all    == scraper.all_products
     IN /\ scraper.raised = "none"
        /\ \A i \in DOMAIN report.products :
              /\ ~text.blank[report.products[i].name]
              /\ report.products[i].price > 0
              /\ \/ report.products[i].original_price = 0
                 \/ report.products[i].original_price >= report.products[i].price
        /\ report.products = [i \in 1..Len(Kept(all)) |-> Cleared(Kept(all)[i])]
        /\ \A i \in DOMAIN all :
              Dropped(all[i]) =>
                 \E j \in DOMAIN report.errors :
                    report.errors[j] = ErrorEntry("invalid", BaseUrl, all[i].name)

\* a report that keeps a record scraped with price 30 and original price 25,
\* cleared, and leaves out a record of the same page
ReportRecordsValidWitness ==
  /\ Reported
  /\ \E i \in DOMAIN scraper.all_products : scraper.all_products[i] = OverpricedFlagged
  /\ \E i \in DOMAIN scraper.all_products : Dropped(scraper.all_products[i])
  /\ scraper.report.products =
       <<[OverpricedFlagged EXCEPT !.original_price = 0, !.is_discounted = FALSE]>>

\* C14: on every path on which run_scraping returns, the one on which
\* scrape_products raised included, success is true exactly when the
\* records of the report, all of them valid, are at least one.
SuccessIffValid ==
  scraper.report.returned =>
     /\ scraper.report.success <=> Len(scraper.report.products) > 0
     /\ \A i \in DOMAIN scraper.report.products :
           validate_product(scraper.report.products[i]).ok
     /\ ScrapeRaised => ~scraper.report.success

\* a scrape that found records, none of them valid, reports no success
SuccessIffValidWitness ==
  /\ Reported
  /\ ~ScrapeRaised
  /\ scraper.all_products # <<>>
  /\ scraper.report.products = <<>>
  /\ ~scraper.report.success

(***************************************************************************)
(* Properties of navigation                                                *)
(***************************************************************************)
\* C15: a call of navigate_to_url makes at most retries + 1 attempts and
\* has ended when it has made them; it returns True only when its last
\* attempt got a response with status < 400, and then one random delay was
\* taken; after a timeout or navigation error on attempt k < retries
\* (counted from 0) it has waited 2^k before the next attempt; when the last
\* attempt ends in a timeout it raises the timeout error, when it ends in
\* another error the navigation error, and returns nothing.
NavigationContract ==
  scraper.pc = "navigate" =>
     LET nav == scraper.nav
         n   == Len(nav.log)
     IN /\ n <= nav.retries + 1
        /\ n = nav.retries + 1 => nav.outcome # "running"
        /\ nav.outcome = "true" => n > 0 /\ nav.log[n] = "ok" /\ nav.delays = 1
        /\ nav.outcome # "true" => nav.delays = 0 /\ \A k \in 1..n : nav.log[k] # "ok"
        /\ \A k \in 1..n :
              (nav.log[k] \in {"timeout", "error"} /\ k - 1 < nav.retries) =>
                 /\ Len(nav.waits) >= k
                 /\ nav.waits[k] = 2 ^ (k - 1)
        /\ (n = nav.retries + 1 /\ nav.log[n] = "timeout") => nav.outcome = "timeout"
        /\ (n = nav.retries + 1 /\ nav.log[n] = "error") => nav.outcome = "navigation"
        /\ nav.outcome \in {"timeout", "navigation"} => n = nav.retries + 1

\* three attempts that timed out, with waits of 1 and 2 between them, end in
\* the timeout error
NavigationContractWitness ==
  /\ scraper.pc = "navigate"
  /\ scraper.nav.retries = 2
  /\ scraper.nav.log = <<"timeout", "timeout", "timeout">>
  /\ scraper.nav.waits = <<1, 2>>
  /\ scraper.nav.outcome = "timeout"

(***************************************************************************)
(* Properties of the session scope                                         *)
(***************************************************************************)
\* C16: when the scope has been left, on whatever path, no resource that
\* was acquired (page, browser, automation driver) is still open.
GuaranteedTeardownAsStated ==
  scraper.pc = "left" =>
     /\ scraper.page # "open"
     /\ scraper.browser # "open"
     /\ scraper.playwright # "open"

\* what cleanup guarantees: the resources acquired after the first one left
\* open are the only ones it may have closed
TeardownInOrder ==
  scraper.pc = "left" =>
     /\ scraper.page = "open" => scraper.browser = "open"
     /\ scraper.browser = "open" => scraper.playwright = "open"

(***************************************************************************)
(* Properties of the category loop                                         *)
(***************************************************************************)
\* the category targets the loop has been through, in order
VisitedTargets == [i \in DOMAIN scraper.visited |-> scraper.visited[i].target]

HasEntry(target) ==
  \E j \in DOMAIN scraper.report.errors :
     /\ scraper.report.errors[j].kind \in {"navigate", "category"}
     /\ scraper.report.errors[j].target = target

\* C17: in the report of a run, every category target on which navigation
\* failed after its retries or the grid selector was not found in time has an
\* entry in the error list, the run has returned, and every target of the
\* list was attempted.
CategoryFailuresAsStated ==
  (Reported /\ ~ScrapeRaised) =>
     /\ \A i \in DOMAIN scraper.visited :
           scraper.visited[i].outcome \in {"navigation_failed", "selector_timeout"} =>
              HasEntry(scraper.visited[i].target)
     /\ VisitedTargets = scraper.category_urls
     /\ scraper.raised = "none"

\* what the loop does: a failed navigation and an exception of the turn are
\* entered, a missing grid is not, and every target is attempted
CategoryFailuresInCode ==
  (Reported /\ ~ScrapeRaised) =>
     /\ \A i \in DOMAIN scraper.visited :
           scraper.visited[i].outcome \in {"navigation_failed", "error"} =>
              HasEntry(scraper.visited[i].target)
     /\ \A i \in DOMAIN scraper.visited :
           (scraper.visited[i].outcome = "selector_timeout"
              /\ \A k \in DOMAIN scraper.visited :
                    scraper.visited[k].target = scraper.visited[i].target => k = i) =>
              ~HasEntry(scraper.visited[i].target)
     /\ VisitedTargets = scraper.category_urls
     /\ scraper.raised = "none"

(***************************************************************************)
(* Properties of runs in progress at once                                  *)
(***************************************************************************)
\* the rows of the catalog that belong to store s
StoreProducts(d, s) ==
  {i \in DOMAIN d.products : d.products[i].store_id = s /\ d.products[i].txn # -1}

\* the position of product i among the products S of its store
Rank(S, i) == Cardinality({j \in S : j <= i})

\* the catalog of store s, the Products numbered in the order of their
\* creation within the store
StoreCatalog(d, s) ==
  LET ids     == StoreProducts(d, s)
      prices  == SelectSeq(d.prices, LAMBDA p : p.store_id = s)
      history == SelectSeq(d.history, LAMBDA h : h.store_id = s)
  IN [ products |-> {<<Rank(ids, i), d.products[i]>> : i \in ids},
       prices   |-> [k \in DOMAIN prices |->
                       [prices[k] EXCEPT !.product_id = Rank(ids, @)]],
       history  |-> [k \in DOMAIN history |->
                       [history[k] EXCEPT !.product_id = Rank(ids, @)]],
       store    |-> d.stores[s] ]

\* no store is given to two runs
DifferentStores ==
  \A r1 \in Runs, r2 \in Runs : r1 # r2 => listings.assign[r1] \cap listings.assign[r2] = {}

\* C18: of two runs for different stores, however their steps interleave,
\* each matches a record only with a Product of its own store, adds rows to
\* its own store only, and leaves the catalog of its store exactly as the
\* run would have left it alone, the other run not being there (solo): the
\* outcome is that of the two runs one after the other.
StoreIsolation ==
  DifferentStores =>
     /\ \A r \in Runs :
           run[r].pc \in {"loop", "done"} =>
              /\ StoreCatalog(db, run[r].store_id) = StoreCatalog(run[r].solo, run[r].store_id)
              /\ \A i \in DOMAIN db.products :
                    db.products[i].txn = r => db.products[i].store_id = run[r].store_id
              /\ \A i \in DOMAIN db.prices :
                    db.prices[i].txn = r => db.prices[i].store_id = run[r].store_id
              /\ \A i \in DOMAIN db.history :
                    db.history[i].txn = r => db.history[i].store_id = run[r].store_id
     /\ result.action = "updated" =>
           db.products[result.product_id].store_id = run[result.run].store_id
     /\ \A i \in DOMAIN db.prices :
           db.products[db.prices[i].product_id].store_id = db.prices[i].store_id

\* the two runs are in their loops at once, each with a Product it has
\* added and not yet committed
StoreIsolationWitness ==
  /\ DifferentStores
  /\ run[1].pc = "loop" /\ run[2].pc = "loop"
  /\ run[1].store_id # run[2].store_id
  /\ \E i \in DOMAIN db.products : db.products[i].txn = 1
  /\ \E i \in DOMAIN db.products : db.products[i].txn = 2

\* C19: between runs no two Products of a store carry the same non-empty
\* external id, and a record is not made a new Product while a Product of
\* the store carries the record's external id.
UniqueIdentityAsStated ==
  /\ BetweenRuns =>
        \A i \in DOMAIN db.products, j \in DOMAIN db.products :
           (/\ i # j
            /\ db.products[i].txn = 0 /\ db.products[j].txn = 0
            /\ db.products[i].store_id = db.products[j].store_id
            /\ db.products[i].external_id # Empty) =>
              db.products[i].external_id # db.products[j].external_id
  /\ (result.action = "created" /\ result.record[1].external_id # Empty) =>
        \A i \in DOMAIN db.products :
           (/\ i # result.product_id
            /\ db.products[i].txn # -1
            /\ db.products[i].store_id = db.products[result.product_id].store_id) =>
              db.products[i].external_id # result.record[1].external_id

(***************************************************************************)
(* Properties of the classifier                                            *)
(***************************************************************************)
\* classify_product("Almarai Full Fat Milk 1L"), no other argument given
AlmaraiMilk == <<"Almarai Full Fat Milk 1L", "", "", "">>

\* C20: a call of the classifier with the name "Almarai Full Fat Milk 1L"
\* alone returns the category dairy with a confidence above 0.8 through the
\* brand short-circuit, and a repeated call returns the same answer.
ClassifierDeterminismAsStated ==
  (call.op = "classify_product" /\ call.input = AlmaraiMilk) =>
     /\ call.output.category = "dairy"
     /\ FracGt(call.output.confidence, <<8, 10>>)
     /\ call.output.via = "brand"
     /\ call.output = call.first

\* what the code returns for the name alone: dairy at 0.4 + 0.3 from the
\* keyword and pattern methods, on every call
NameOnlyClassification ==
  (call.op = "classify_product" /\ call.input = AlmaraiMilk) =>
     /\ call.output = Answer("dairy", <<7, 10>>, "weighted")
     /\ call.output = call.first

\* the short-circuit is taken when the brand is passed as the brand
BrandShortCircuit ==
  (call.op = "classify_product" /\ call.input[1] # "" /\ call.input[3] = "Almarai") =>
     call.output = Answer("dairy", <<9, 10>>, "brand")

\* a repeated call returns what the first call returned
RepeatedCalls == call.op = "classify_product" => call.output = call.first

\* a pattern of exclusion_patterns[category] matches the combined text of
\* the arguments of a call
Vetoed(input, category) == is_excluded(combined_text(ClassifierText[input[1]], ClassifierText[input[2]], ClassifierText[input[3]], ClassifierText[input[4]]), category)

\* C21: classify_product never returns a category one of whose exclusion
\* patterns matches the combined text of its arguments, on any return path
\* (brand short-circuit, store-category short-circuit, second-best candidate,
\* best candidate).
ExclusionVetoAsStated == call.op = "classify_product" => ~Vetoed(call.input, call.output.category)

\* the veto is applied to the best of the weighted candidates only: the
\* answer of the final return statement is never vetoed
VetoOnBestCandidate ==
  (call.op = "classify_product" /\ call.output.via \in {"weighted", "excluded", "no_candidates", "no_name"}) =>
     ~Vetoed(call.input, call.output.category)

\* the answer of the brand short-circuit is not tested against the patterns
VetoOnBrandPath == (call.op = "classify_product" /\ call.output.via = "brand") => ~Vetoed(call.input, call.output.category)

\* nor is the answer of the store-category short-circuit
VetoOnStoreCategoryPath == (call.op = "classify_product" /\ call.output.via = "store_category") => ~Vetoed(call.input, call.output.category)

\* nor is the second-best candidate
VetoOnSecondBest == (call.op = "classify_product" /\ call.output.via = "second_best") => ~Vetoed(call.input, call.output.category)

(***************************************************************************)
(* Properties of validation in the data processor                          *)
(***************************************************************************)
\* the record of the last turn of the loop has a name and a price and an
\* original price below its price
LowerOriginalPrice ==
  /\ result.action \in {"created", "updated", "invalid"}
  /\ ~text.blank[result.record[1].name]
  /\ result.record[1].price > 0
  /\ result.record[1].original_price # 0
  /\ result.record[1].original_price < result.record[1].price

\* C22: a record whose original price is present and lower than its price is
\* not an error in the data processor: it is reconciled like any valid record
\* (a Product matched or created) and is not counted as invalid.
LowerOriginalPriceAsStated == LowerOriginalPrice => result.action \in {"created", "updated"}

\* what the code does with such a record: _validate_scraped_product returns
\* False, the record is counted as invalid and no table is touched
LowerOriginalPriceRejected ==
  LowerOriginalPrice =>
     /\ result.action = "invalid"
     /\ Len(db.products) = result.n_products
     /\ Len(db.prices) = result.n_prices
     /\ Len(db.history) = result.n_history
     /\ run[result.run].stats.invalid_products > 0

(***************************************************************************)
(* Properties of the session of a run                                      *)
(***************************************************************************)
\* a navigation has been attempted in the call of navigate_to_url in progress
NavigationAttempted == scraper.pc = "navigate" /\ scraper.nav.log # <<>>

\* the automation driver, the browser and the page are all closed
SessionClosed == scraper.page = "closed" /\ scraper.browser = "closed" /\ scraper.playwright = "closed"

\* C23: every call of run opens exactly one browser session before its
\* first navigation and has closed it by the time it returns, on the
\* success path and on every failure path; no navigation is attempted
\* without an open session.
SessionOwnedByRunAsStated ==
  /\ NavigationAttempted => scraper.page = "open"
  /\ scraper.report.returned => SessionClosed

\* run_scraping opens and closes nothing: the session is that of the scope
\* around the call.  In a scope every navigation has the one session of the
\* scope open, and the session is still open when run_scraping returns
SessionOfTheScope ==
  (scraper.pc \in {"navigate", "page", "validate", "scope"} /\ scraper.playwright # "none") =>
     scraper.page = "open" /\ scraper.browser = "open" /\ scraper.playwright = "open"

\* on a scraper that entered no scope run_scraping runs without a session:
\* every attempt of a navigation fails on the page that is None, and the
\* call returns a report with no record, with nothing opened
RunWithoutSession ==
  (scraper.pc \in {"navigate", "validate", "returned"} /\ scraper.playwright = "none") =>
     /\ scraper.page = "none" /\ scraper.browser = "none"
     /\ \A i \in DOMAIN scraper.nav.log : scraper.nav.log[i] = "error"
     /\ scraper.all_products = <<>>
     /\ scraper.report.returned => ~scraper.report.success

(***************************************************************************)
(* Properties of pagination                                                *)
(***************************************************************************)
\* the cap of the routine of a strategy
RoundCap(strategy) == IF strategy \in ScrollStrategies THEN max_scrolls(strategy) ELSE max_pages(strategy)

\* C24: for every behaviour of the page (a button that is always there and
\* can always be clicked, a height that keeps growing, clicks and calls that
\* fail) the pagination routine of a strategy makes at most the rounds of
\* its cap (Gourmet 5, Rabbit 4, Metro 3, Spinneys 4, Instashop 5) and then
\* returns: it never raises and never goes on for ever.
PaginationTerminates ==
  /\ [](scraper.paging.rounds <= RoundCap(scraper.strategy))
  /\ [](scraper.paging.page_count <= scraper.paging.rounds)
  /\ <>[](scraper.paging.pc = "returned")

\* the "load more" button of Instashop is there and clickable in every
\* round: the routine returns after its 5 clicks
PaginationWitness ==
  /\ scraper.strategy = "instashop"
  /\ scraper.paging.pc = "returned"
  /\ scraper.paging.rounds = 5
  /\ ~scraper.paging.warned
  /\ \A i \in DOMAIN scraper.paging.log : scraper.paging.log[i] = "more_clicked"

(***************************************************************************)
(* Properties of the tasks of the backend                                  *)
(***************************************************************************)
\* the last task of store s has ended after a scrape that gave no record
ScrapedNothing(s) ==
  /\ tasks.task[s].pc = "done"
  /\ tasks.task[s].scrape \in {"returned", "caught"}
  /\ tasks.task[s].products_data = 0

\* C25 as the specification states it: a store whose scrape produced no
\* record (the scraper caught a fatal error and returned [], or found
\* nothing) is not left with status "online" by scrape_store_task.
EmptyScrapeAsStated == \A s \in BackendStores : ScrapedNothing(s) => tasks.stores[s].status # "online"

\* what the code does: an empty scrape whose (empty) save commits leaves
\* the store "online" with a new last_scraped, even when scrape() caught a
\* fatal error; only an exception that reaches the task gives "offline"
EmptyScrapeOnline ==
  \A s \in BackendStores : ScrapedNothing(s) =>
    /\ tasks.stores[s].status = (IF tasks.task[s].save = "saved" THEN "online" ELSE "offline")
    /\ tasks.task[s].save = "saved" => tasks.stores[s].last_scraped > 0

\* a step of the task of one store leaves the rows, the messages and the
\* tasks of the other stores as they were, and whatever a task did, the
\* queued task of another store can be taken
SiblingTasksRun ==
  [][\A s \in BackendStores :
       /\ (tasks'.task[s] # tasks.task[s]) =>
            \A o \in BackendStores \ {s} : tasks'.stores[o] = tasks.stores[o] /\ tasks'.task[o] = tasks.task[o] /\ tasks'.queue[o] = tasks.queue[o]
       /\ (tasks.queue[s] > 0 /\ tasks.task[s].pc # "scraping") => ENABLED BeginStoreTask(s)]_vars

(***************************************************************************)
(* Properties of the statistics a run returns                              *)
(***************************************************************************)
\* the Price rows run r has inserted: the rows the table has gained since
\* the run began (no other run writes meanwhile)
PricesInserted(r) == Len(db.prices) - Len(run[r].pre.prices)

\* C26 as the specification states it: in the statistics of a committed
\* run prices_added + prices_updated is the number of Price rows the run
\* inserted; a record the price gate discarded increments neither.
PriceCountersAsStated ==
  \A r \in Runs : Completed(r) =>
    run[r].stats.prices_added + run[r].stats.prices_updated = PricesInserted(r)

\* what the code does: every record that was created or matched
\* increments one of the two counters, whether or not a Price row was
\* written for it, so the sum is an upper bound on the rows inserted
PriceCountersInCode ==
  \A r \in Runs : Completed(r) =>
    /\ run[r].stats.prices_added + run[r].stats.prices_updated = run[r].stats.products_created + run[r].stats.products_updated
    /\ PricesInserted(r) <= run[r].stats.prices_added + run[r].stats.prices_updated
    /\ run[r].stats.prices_updated <= PricesInserted(r)

\* run r has returned after the rollback of its transaction
RolledBack(r) == run[r].pc = "done" /\ run[r].outcome = "rolled_back"

\* C27 as the specification states it: the statistics a rolled-back run
\* returns report no mutation (products_created, products_updated,
\* prices_added and prices_updated are 0) and hold an error.
RolledBackStatsAsStated ==
  \A r \in Runs : RolledBack(r) =>
    /\ run[r].stats.products_created = 0
    /\ run[r].stats.products_updated = 0
    /\ run[r].stats.prices_added = 0
    /\ run[r].stats.prices_updated = 0
    /\ run[r].stats.errors # <<>>

\* what the code does: the outer except rolls back and appends its
\* message last, and the counters keep what the loop counted, although
\* the tables are again what they were when the run began
RolledBackStatsInCode ==
  \A r \in Runs : RolledBack(r) =>
    /\ run[r].stats.errors # <<>> /\ run[r].stats.errors[Len(run[r].stats.errors)] = "fatal"
    /\ run[r].stats.products_created + run[r].stats.products_updated + run[r].stats.invalid_products = Len(remove_duplicates(run[r].input))
    /\ Committed(db, {}) = run[r].pre

(***************************************************************************)
(* Properties of the error list of a report                                *)
(***************************************************************************)
\* the failures the strategy has recorded in self.errors during the loop
RecordedErrors == Cardinality({i \in DOMAIN scraper.visited : scraper.visited[i].outcome \in {"navigation_failed", "error"}})

\* the records validation has dropped
DroppedRecords == Len(scraper.all_products) - Len(scraper.valid_products)

\* C28 as the specification states it: the error list of a returned report
\* holds each failure of the run once; its length is the number of
\* category and page errors the strategy recorded plus the number of
\* records validation dropped.
ErrorListAsStated ==
  (Reported /\ ~ScrapeRaised) => Len(scraper.report.errors) = RecordedErrors + DroppedRecords

\* what the code does: result.errors is the list self.errors, and
\* extending it by self.errors appends the list to itself, so the report
\* holds every failure twice
ErrorListInCode ==
  (Reported /\ ~ScrapeRaised) =>
     LET n == RecordedErrors + DroppedRecords
     IN /\ Len(scraper.report.errors) = 2 * n
        /\ \A j \in 1..n : scraper.report.errors[j + n] = scraper.report.errors[j]
        /\ scraper.errors = scraper.report.errors

(***************************************************************************)
(* Properties of the retention cleanup                                     *)
(***************************************************************************)
\* the committed Price rows run r wrote
PricesOfRun(r) == {k \in DOMAIN db.prices : db.prices[k].txn = 0 /\ db.prices[k].scraped_at = run[r].txn_time}

\* C29 as the specification states it: a Product that is sighted again is
\* active again; when a run has committed, every Product that received a
\* Price row in it (a row newer than the cutoff of any cleanup so far) is
\* active.  And cleanup deletes no Product and no latest Price row.
ReactivationAsStated ==
  \A r \in Runs : (Completed(r) /\ now = run[r].txn_time) =>
     \A k \in PricesOfRun(r) : db.products[db.prices[k].product_id].is_active

\* what the code does: nothing sets is_active back to True; a Product the
\* cleanup deactivated stays inactive whatever it receives afterwards
NoReactivation ==
  [][\A i \in DOMAIN db.products : (db.products[i].txn = 0 /\ ~db.products[i].is_active) => ~db'.products[i].is_active]_vars

\* the half of C29 that holds: no step deletes a committed Product, and
\* every committed Price row that is a latest one of its pair stays
CleanupKeeps ==
  [][/\ \A i \in DOMAIN db.products : db.products[i].txn = 0 => (i \in DOMAIN db'.products /\ db'.products[i].txn = 0)
     /\ \A k \in DOMAIN db.prices :
          (db.prices[k].txn = 0 /\ latest_of_pair(SelectSeq(db.prices, LAMBDA p : p.txn = 0), db.prices[k])) =>
             \E j \in DOMAIN db'.prices : db'.prices[j] = db.prices[k]]_vars

\* a cleanup has deleted a Price row and has deactivated a Product
CleanupActed ==
  /\ call.op = "clean_old_data"
  /\ call.input[2] = "ok"
  /\ call.output[1].old_prices_deleted > 0
  /\ call.output[1].inactive_products_deleted > 0

(***************************************************************************)
(* Properties of the accounting of a run                                   *)
(***************************************************************************)
\* C30: in the statistics of a committed run every input record is counted
\* once: total_scraped (the length of the input) is duplicates_removed +
\* products_created + products_updated + invalid_products, and the
\* messages of single records are no more than invalid_products.
EveryRecordCounted ==
  \A r \in Runs : Completed(r) =>
     LET stats == run[r].stats
     IN /\ stats.total_scraped = Len(run[r].input)
        /\ stats.total_scraped = stats.duplicates_removed + stats.products_created + stats.products_updated + stats.invalid_products
        /\ Len(stats.errors) <= stats.invalid_products
        /\ \A i \in DOMAIN stats.errors : stats.errors[i] = "record"

\* a committed run whose input of two records held a duplicate, and whose
\* remaining record failed validation
EveryRecordCountedWitness ==
  \E r \in Runs :
     /\ Completed(r)
     /\ run[r].stats.total_scraped = 2
     /\ run[r].stats.duplicates_removed = 1
     /\ run[r].stats.invalid_products = 1

\* a committed run that counted a created and an updated record
WrittenRecordsCounted ==
  \E r \in Runs : Completed(r) /\ run[r].stats.products_created = 1 /\ run[r].stats.products_updated = 1

\* a committed run that counted a record invalid without a message, and
\* one that counted a record invalid with its message
InvalidWithoutMessage ==
  \E r \in Runs : Completed(r) /\ run[r].stats.invalid_products > Len(run[r].stats.errors)

InvalidWithMessage ==
  \E r \in Runs : Completed(r) /\ run[r].stats.errors # <<>>

=============================================================================
